---- MODULE Spec2Model ----
(***************************************************************************)
(* A model of pytest-agentcontract's core: the trajectory types, the       *)
(* Recorder, the cassette codec (run_to_dict / run_from_dict), the replay  *)
(* ToolStub and the AssertionEngine.                                       *)
(*                                                                         *)
(* Four specifications share the module, one per component:                *)
(*   Spec        the Recorder and the codec round trip of its Run          *)
(*   SpecReplay  the ToolStub over a fixed recorded Run                    *)
(*   SpecDecode  run_from_dict over a cassette document                    *)
(*   SpecCheck   AssertionEngine.check over a Run                          *)
(* A specification leaves the variables of the other components at Idle.   *)
(***************************************************************************)
EXTENDS Integers, Sequences, FiniteSets, TLC

VARIABLES
    \* Recorder (recorder/core.py)
    run,                    \* Recorder._run : AgentRun
    start_time,             \* Recorder._start_time : None or a clock reading
    turn_index,             \* Recorder._turn_index
    total_tool_calls,       \* Recorder._total_tool_calls
    total_prompt_tokens,    \* Recorder._total_prompt_tokens
    total_completion_tokens,\* Recorder._total_completion_tokens
    open_sessions,          \* recording() contexts entered and not yet left
    rec_last,               \* the last Recorder operation and its outcome
    rec_hist,               \* counts of operations so far (history)
    \* ToolStub (replay/engine.py)
    recorded,               \* the recorded run's turns
    stub_tool_calls,        \* ToolStub._tool_calls
    stub_call_counts,       \* ToolStub._call_counts
    stub_last,              \* the last ToolStub operation and its outcome
    returned,               \* per function, the results returned so far (history)
    exhausted,              \* the functions get_result has failed Exhausted for (history)
    requests,               \* per function, the get_result calls made so far (history)
    \* Codec decode (serialization.py)
    doc,                    \* the cassette document handed to run_from_dict
    decoded,                \* the outcome of run_from_dict
    \* AssertionEngine (assertions/engine.py)
    chk_run,                \* the AgentRun being checked
    chk_assertions,         \* the assertions handed to check
    chk_policies,           \* the policies handed to check
    chk_out                 \* the outcome of check

vars == <<run, start_time, turn_index, total_tool_calls, total_prompt_tokens,
          total_completion_tokens, open_sessions, rec_last, rec_hist,
          recorded, stub_tool_calls, stub_call_counts, stub_last, returned, exhausted,
          requests, doc, decoded, chk_run, chk_assertions, chk_policies, chk_out>>

recVars == <<run, start_time, turn_index, total_tool_calls, total_prompt_tokens,
             total_completion_tokens, open_sessions, rec_last, rec_hist>>
stubVars == <<recorded, stub_tool_calls, stub_call_counts, stub_last, returned,
              exhausted, requests>>
decVars == <<doc, decoded>>
chkVars == <<chk_run, chk_assertions, chk_policies, chk_out>>

\* The value of a variable whose component a specification does not run.
Idle == <<>>

(***************************************************************************)
(* Python values.  Every value is a record of one shape, so that any two   *)
(* can be compared: k is the type, s its text, n its number (floats are    *)
(* counted in halves, so 2.5 is n = 5), xs its elements.  A dict is the    *)
(* sequence of its items in insertion order, an item the pair of its key   *)
(* and value.                                                              *)
(***************************************************************************)
PyVal(k, s, n, xs) == [k |-> k, s |-> s, n |-> n, xs |-> xs]
PyNone == PyVal("none", "", 0, <<>>)
PyStr(t) == PyVal("str", t, 0, <<>>)
PyInt(i) == PyVal("int", "", i, <<>>)
PyFloat(h) == PyVal("float", "fin", h, <<>>)
PyInf == PyVal("float", "inf", 0, <<>>)
PyNaN == PyVal("float", "nan", 0, <<>>)
PyHugeInt == PyVal("int", "huge", 0, <<>>)
PyList(xs) == PyVal("list", "", 0, xs)
PyTuple(xs) == PyVal("tuple", "", 0, xs)
PyItem(key, val) == PyVal("item", "", 0, <<key, val>>)
PyDict(items) == PyVal("dict", "", 0, items)
PyDate(t) == PyVal("date", t, 0, <<>>)
PyObject(t) == PyVal("object", t, 0, <<>>)
\* str(v) of a value that is not a str: the str holding v's text.
PyStrOf(v) == PyVal("str", "str()", 0, <<v>>)
EmptyDict == PyDict(<<>>)

IsNone(v) == v.k = "none"
IsStr(v) == v.k = "str"
IsDict(v) == v.k = "dict"
IsList(v) == v.k = "list"

\* Optional dataclass fields (Timing | None, TokenUsage | None).
None == <<>>
Some(x) == <<x>>

\* str(value): a str is itself, an int its decimal text, anything else its text.
Str(v) ==
    IF IsStr(v) THEN v
    ELSE IF v.k = "int" /\ v.s = "" THEN PyStr(ToString(v.n))
    ELSE PyStrOf(v)

(***************************************************************************)
(* types.py                                                                *)
(***************************************************************************)
TurnRole == {"system", "user", "assistant", "tool"}

ToolCall(id, function, arguments, result, duration_ms) ==
    [id |-> id, function |-> function, arguments |-> arguments,
     result |-> result, duration_ms |-> duration_ms]

Timing(latency_ms, time_to_first_token_ms) ==
    [latency_ms |-> latency_ms, time_to_first_token_ms |-> time_to_first_token_ms]

TokenUsage(prompt, completion, total) ==
    [prompt |-> prompt, completion |-> completion, total |-> total]

Turn(index, role, content, tool_calls, timing, tokens) ==
    [index |-> index, role |-> role, content |-> content,
     tool_calls |-> tool_calls, timing |-> timing, tokens |-> tokens]

\* A Python dict read with .get(key, default), and written with d[key] = value.
DictGet(d, key, default) == IF key \in DOMAIN d THEN d[key] ELSE default
DictSet(d, key, value) ==
    [x \in DOMAIN d \cup {key} |-> IF x = key THEN value ELSE d[x]]
EmptyMap == [x \in {} |-> 0]

(***************************************************************************)
(* Python's int(value) and float(value), as the coercion helpers call them.*)
(* The outcome names the exception raised ("none" when there is none).     *)
(***************************************************************************)
Returns(v) == [raises |-> "none", value |-> v]
Raises(e) == [raises |-> e, value |-> PyNone]

\* Python str operations on the text of a str.
StartsWith(s, prefix) == Len(s) >= Len(prefix) /\ SubSeq(s, 1, Len(prefix)) = prefix

\* sub in s
Contains(s, sub) ==
    \E i \in 1..(Len(s) + 1) :
        i + Len(sub) - 1 <= Len(s) /\ SubSeq(s, i, i + Len(sub) - 1) = sub

\* s.replace(old, ""), old not empty
RECURSIVE Replace(_, _)
Replace(s, old) ==
    IF Len(s) < Len(old) THEN s
    ELSE IF StartsWith(s, old) THEN Replace(SubSeq(s, Len(old) + 1, Len(s)), old)
    ELSE SubSeq(s, 1, 1) \o Replace(SubSeq(s, 2, Len(s)), old)

\* The place of the first sep in s, 0 when there is none.
FindChar(s, sep) ==
    IF \E i \in 1..Len(s) : SubSeq(s, i, i) = sep
    THEN CHOOSE i \in 1..Len(s) :
            /\ SubSeq(s, i, i) = sep
            /\ \A j \in 1..(i - 1) : SubSeq(s, j, j) # sep
    ELSE 0

\* s.split(sep, maxsplit)
RECURSIVE Split(_, _, _)
Split(s, sep, maxsplit) ==
    IF maxsplit = 0 \/ FindChar(s, sep) = 0 THEN <<s>>
    ELSE <<SubSeq(s, 1, FindChar(s, sep) - 1)>>
         \o Split(SubSeq(s, FindChar(s, sep) + 1, Len(s)), sep, maxsplit - 1)

\* The decimal texts int() parses: an optional sign and digits.  (int() also
\* takes surrounding blanks and underscores between digits.)
Digits == {"0", "1", "2", "3", "4", "5", "6", "7", "8", "9"}
DigitValue(c) ==
    CASE c = "0" -> 0 [] c = "1" -> 1 [] c = "2" -> 2 [] c = "3" -> 3 [] c = "4" -> 4
      [] c = "5" -> 5 [] c = "6" -> 6 [] c = "7" -> 7 [] c = "8" -> 8 [] c = "9" -> 9
AllDigits(t) == Len(t) > 0 /\ \A i \in 1..Len(t) : SubSeq(t, i, i) \in Digits
IsIntText(t) ==
    IF StartsWith(t, "-") \/ StartsWith(t, "+") THEN AllDigits(SubSeq(t, 2, Len(t)))
    ELSE AllDigits(t)
RECURSIVE DigitsValue(_)
DigitsValue(t) ==
    IF Len(t) = 0 THEN 0
    ELSE 10 * DigitsValue(SubSeq(t, 1, Len(t) - 1)) + DigitValue(SubSeq(t, Len(t), Len(t)))
IntOfText(t) ==
    IF StartsWith(t, "-") THEN -DigitsValue(SubSeq(t, 2, Len(t)))
    ELSE IF StartsWith(t, "+") THEN DigitsValue(SubSeq(t, 2, Len(t)))
    ELSE DigitsValue(t)

\* The texts float() parses: those of int(), and a text with a fraction of .5
\* (floats are counted in halves).
IsFloatText(t) ==
    \/ IsIntText(t)
    \/ Len(t) > 2 /\ SubSeq(t, Len(t) - 1, Len(t)) = ".5"
                  /\ IsIntText(SubSeq(t, 1, Len(t) - 2))
HalvesOfText(t) ==
    IF IsIntText(t) THEN 2 * IntOfText(t)
    ELSE IF StartsWith(t, "-") THEN 2 * IntOfText(SubSeq(t, 1, Len(t) - 2)) - 1
    ELSE 2 * IntOfText(SubSeq(t, 1, Len(t) - 2)) + 1

\* A float's integer part, truncated toward zero (h counts halves).
Truncate(h) == IF h >= 0 THEN h \div 2 ELSE -((-h) \div 2)

\* int(value) for a value that is not None.
PyIntOf(v) ==
    CASE v.k = "int" -> Returns(v)
      [] v.k = "float" /\ v.s = "fin" -> Returns(PyInt(Truncate(v.n)))
      [] v.k = "float" /\ v.s = "inf" -> Raises("OverflowError")
      [] v.k = "float" /\ v.s = "nan" -> Raises("ValueError")
      [] v.k = "str" /\ IsIntText(v.s) -> Returns(PyInt(IntOfText(v.s)))
      [] v.k = "str" /\ ~IsIntText(v.s) -> Raises("ValueError")
      [] OTHER -> Raises("TypeError")

\* float(value) for a value that is not None.
PyFloatOf(v) ==
    CASE v.k = "float" -> Returns(v)
      [] v.k = "int" /\ v.s = "" -> Returns(PyFloat(2 * v.n))
      [] v.k = "int" /\ v.s = "huge" -> Raises("OverflowError")
      [] v.k = "str" /\ IsFloatText(v.s) -> Returns(PyFloat(HalvesOfText(v.s)))
      [] v.k = "str" /\ ~IsFloatText(v.s) -> Raises("ValueError")
      [] OTHER -> Raises("TypeError")

\* try: return <conversion> / except (TypeError, ValueError): return default
ExceptTypeOrValueError(r, default) ==
    IF r.raises \in {"TypeError", "ValueError"} THEN Returns(default) ELSE r

\* _coerce_int (recorder/core.py and serialization.py hold the same helper)
CoerceInt(value, default) ==
    IF IsNone(value) THEN Returns(default)
    ELSE ExceptTypeOrValueError(PyIntOf(value), default)

\* _coerce_optional_int
CoerceOptionalInt(value) ==
    IF IsNone(value) THEN Returns(PyNone)
    ELSE ExceptTypeOrValueError(PyIntOf(value), PyNone)

\* _coerce_float
CoerceFloat(value, default) ==
    IF IsNone(value) THEN Returns(default)
    ELSE ExceptTypeOrValueError(PyFloatOf(value), default)

\* _coerce_optional_float (recorder/core.py and serialization.py hold the same helper)
CoerceOptionalFloat(value) ==
    IF IsNone(value) THEN Returns(PyNone)
    ELSE ExceptTypeOrValueError(PyFloatOf(value), PyNone)

\* Mutant of CoerceStr: str(value) is taken of every value that is no str.
CoerceStrOfAny(value, default) == IF IsStr(value) THEN value ELSE Str(value)

\* _coerce_str
CoerceStr(value, default) ==
    IF IsNone(value) THEN default ELSE IF IsStr(value) THEN value ELSE Str(value)

\* _coerce_dict and _coerce_tool_arguments
CoerceDict(value) == IF IsDict(value) THEN value ELSE EmptyDict

\* _coerce_list
CoerceList(value) == IF IsList(value) THEN value.xs ELSE <<>>

\* dict.get(key) on a Python dict value: None when the key is absent.
PyGet(d, key) ==
    IF \E i \in 1..Len(d.xs) : d.xs[i].xs[1] = PyStr(key)
    THEN d.xs[CHOOSE i \in 1..Len(d.xs) : d.xs[i].xs[1] = PyStr(key)].xs[2]
    ELSE PyNone

\* d[key] = value on a Python dict value: a present key keeps its place.
PyPut(d, key, value) ==
    IF \E i \in 1..Len(d.xs) : d.xs[i].xs[1] = key
    THEN PyDict([i \in 1..Len(d.xs) |->
                    IF d.xs[i].xs[1] = key THEN PyItem(key, value) ELSE d.xs[i]])
    ELSE PyDict(Append(d.xs, PyItem(key, value)))

(***************************************************************************)
(* serialization.py: run_to_dict                                           *)
(***************************************************************************)
\* sorted(value, key=repr) of a set; the model's sets hold one-digit ints, whose
\* repr order is their numeric order.
RECURSIVE SortedByRepr(_)
SortedByRepr(xs) ==
    IF xs = <<>> THEN <<>>
    ELSE LET i == CHOOSE i \in 1..Len(xs) : \A j \in 1..Len(xs) : xs[i].n <= xs[j].n
         IN <<xs[i]>> \o SortedByRepr(SubSeq(xs, 1, i - 1) \o SubSeq(xs, i + 1, Len(xs)))

RECURSIVE ToJsonCompatible(_)
RECURSIVE JsonItems(_, _)

\* The dict comprehension of _to_json_compatible: {str(key): normalized item}.
JsonItems(items, acc) ==
    IF items = <<>> THEN acc
    ELSE JsonItems(Tail(items),
                   PyPut(acc, Str(Head(items).xs[1]), ToJsonCompatible(Head(items).xs[2])))

\* _to_json_compatible
ToJsonCompatible(value) ==
    CASE value.k \in {"none", "str", "int", "float", "bool"} -> value
      [] value.k = "dict" -> JsonItems(value.xs, EmptyDict)
      [] value.k \in {"list", "tuple"} ->
            PyList([i \in 1..Len(value.xs) |-> ToJsonCompatible(value.xs[i])])
      [] value.k \in {"set", "frozenset"} ->
            PyList([i \in 1..Len(value.xs) |-> ToJsonCompatible(SortedByRepr(value.xs)[i])])
      [] value.k = "path" -> Str(value)
      [] value.k = "date" -> PyStr(value.s)
      [] OTHER -> Str(value)

\* A dict literal: the items in the order written.
Field(key, value) == PyItem(PyStr(key), value)

\* The tool_calls list _turn_to_dict writes.
ToolCallsToList(tool_calls) ==
    PyList([i \in 1..Len(tool_calls) |->
        PyDict(<<Field("id", tool_calls[i].id),
                 Field("function", tool_calls[i].function),
                 Field("arguments", tool_calls[i].arguments),
                 Field("result", tool_calls[i].result),
                 Field("duration_ms", tool_calls[i].duration_ms)>>)])

\* Mutant of ContentWritten: content is written only when it is truthy.
ContentWrittenWhenTruthy(turn) == ~IsNone(turn.content) /\ turn.content # PyStr("")

\* _turn_to_dict: "if turn.content is not None"
ContentWritten(turn) == ~IsNone(turn.content)

\* _turn_to_dict
TurnToDict(turn) ==
    PyDict(<<Field("index", PyInt(turn.index)), Field("role", PyStr(turn.role))>>
           \o (IF ContentWritten(turn) THEN <<Field("content", turn.content)>> ELSE <<>>)
           \o (IF turn.tool_calls # <<>>
               THEN <<Field("tool_calls", ToolCallsToList(turn.tool_calls))>> ELSE <<>>)
           \o (IF turn.timing # None
               THEN <<Field("timing", PyDict(
                        <<Field("latency_ms", turn.timing[1].latency_ms),
                          Field("time_to_first_token_ms",
                                turn.timing[1].time_to_first_token_ms)>>))>>
               ELSE <<>>)
           \o (IF turn.tokens # None
               THEN <<Field("tokens", PyDict(
                        <<Field("prompt", PyInt(turn.tokens[1].prompt)),
                          Field("completion", PyInt(turn.tokens[1].completion)),
                          Field("total", PyInt(turn.tokens[1].total))>>))>>
               ELSE <<>>))

\* run_to_dict
RunToDict(r) ==
    ToJsonCompatible(PyDict(
        <<Field("schema_version", r.schema_version),
          Field("run_id", r.run_id),
          Field("source", PyDict(
              <<Field("recorded_at", r.recorded_at),
                Field("recorder_version", r.recorder_version),
                Field("sdk", r.sdk)>>)),
          Field("model", PyDict(
              <<Field("provider", r.model.provider),
                Field("model", r.model.model),
                Field("temperature", r.model.temperature),
                Field("top_p", r.model.top_p),
                Field("max_tokens", r.model.max_tokens),
                Field("seed", r.model.seed)>>)),
          Field("metadata", PyDict(
              <<Field("scenario", r.metadata.scenario),
                Field("tags", r.metadata.tags),
                Field("description", r.metadata.description)>>)),
          Field("summary", PyDict(
              <<Field("total_turns", PyInt(r.summary.total_turns)),
                Field("total_duration_ms", r.summary.total_duration_ms),
                Field("total_tokens", PyDict(
                    <<Field("prompt", PyInt(r.summary.total_tokens.prompt)),
                      Field("completion", PyInt(r.summary.total_tokens.completion)),
                      Field("total", PyInt(r.summary.total_tokens.total))>>)),
                Field("total_tool_calls", PyInt(r.summary.total_tool_calls)),
                Field("estimated_cost_usd", r.summary.estimated_cost_usd)>>)),
          Field("turns", PyList([i \in 1..Len(r.turns) |-> TurnToDict(r.turns[i])]))>>))

(***************************************************************************)
(* serialization.py: run_from_dict                                         *)
(***************************************************************************)
\* The first exception among the outcomes of expressions evaluated in order.
FirstRaised(rs) ==
    IF \E i \in 1..Len(rs) : rs[i].raises # "none"
    THEN rs[CHOOSE i \in 1..Len(rs) :
                /\ rs[i].raises # "none"
                /\ \A j \in 1..(i - 1) : rs[j].raises = "none"].raises
    ELSE "none"

\* The elements of a list that are dicts: [... for x in xs if isinstance(x, dict)].
OnlyDicts(xs) == SelectSeq(xs, IsDict)

\* One ToolCall(...) of _turn_from_dict.
ToolCallFromDict(tc) ==
    LET duration_ms == CoerceOptionalFloat(PyGet(tc, "duration_ms"))
    IN IF duration_ms.raises # "none" THEN Raises(duration_ms.raises)
       ELSE Returns(ToolCall(CoerceStr(PyGet(tc, "id"), PyStr("")),
                             CoerceStr(PyGet(tc, "function"), PyStr("")),
                             CoerceDict(PyGet(tc, "arguments")),
                             PyGet(tc, "result"),
                             duration_ms.value))

\* Mutant of TurnRoleOf: a missing or unknown role decodes as the user role.
TurnRoleOfDefaulting(raw_role) ==
    IF raw_role.s \in TurnRole THEN Returns(raw_role.s) ELSE Returns("user")

\* The role lines of _turn_from_dict: raw_role is _coerce_str(data.get("role")).
TurnRoleOf(raw_role) ==
    IF raw_role = PyStr("") THEN Raises("ValueError")
    ELSE IF raw_role.xs = <<>> /\ raw_role.s \in TurnRole THEN Returns(raw_role.s)
    ELSE Raises("ValueError")

\* _turn_from_dict
TurnFromDict(data) ==
    LET tool_calls_data == OnlyDicts(CoerceList(PyGet(data, "tool_calls")))
        tool_calls == [i \in 1..Len(tool_calls_data) |->
                          ToolCallFromDict(tool_calls_data[i])]
        timing_data == PyGet(data, "timing")
        latency_ms == CoerceOptionalFloat(PyGet(timing_data, "latency_ms"))
        ttft_ms == CoerceOptionalFloat(PyGet(timing_data, "time_to_first_token_ms"))
        timing == IF IsDict(timing_data)
                  THEN <<latency_ms, ttft_ms>> ELSE <<>>
        tokens_data == PyGet(data, "tokens")
        prompt == CoerceInt(PyGet(tokens_data, "prompt"), PyInt(0))
        completion == CoerceInt(PyGet(tokens_data, "completion"), PyInt(0))
        total == CoerceInt(PyGet(tokens_data, "total"), PyInt(0))
        tokens == IF IsDict(tokens_data) THEN <<prompt, completion, total>> ELSE <<>>
        raw_content == PyGet(data, "content")
        content == IF ~IsNone(raw_content) /\ ~IsStr(raw_content)
                   THEN Str(raw_content) ELSE raw_content
        role == TurnRoleOf(CoerceStr(PyGet(data, "role"), PyStr("")))
        index == CoerceInt(PyGet(data, "index"), PyInt(0))
        raised == FirstRaised(tool_calls \o timing \o tokens \o <<role, index>>)
    IN IF raised # "none" THEN Raises(raised)
       ELSE Returns(Turn(index.value.n, role.value, content,
                         [i \in 1..Len(tool_calls) |-> tool_calls[i].value],
                         IF IsDict(timing_data)
                         THEN Some(Timing(latency_ms.value, ttft_ms.value)) ELSE None,
                         IF IsDict(tokens_data)
                         THEN Some(TokenUsage(prompt.value.n, completion.value.n,
                                              total.value.n))
                         ELSE None))

\* Mutant of DecodableTurns: a turn that fails to decode is left out.
DecodableTurnsSkippingBad(entries) ==
    SelectSeq(OnlyDicts(entries), LAMBDA t : TurnFromDict(t).raises = "none")

\* The entries of the turns list that run_from_dict hands to _turn_from_dict.
DecodableTurns(entries) == OnlyDicts(entries)

\* run_from_dict
RunFromDict(data) ==
    LET source == CoerceDict(PyGet(data, "source"))
        model_data == CoerceDict(PyGet(data, "model"))
        meta == CoerceDict(PyGet(data, "metadata"))
        summary_data == CoerceDict(PyGet(data, "summary"))
        tokens_data == CoerceDict(PyGet(summary_data, "total_tokens"))
        tags == IF IsList(PyGet(meta, "tags")) THEN PyGet(meta, "tags") ELSE PyList(<<>>)
        temperature == CoerceFloat(PyGet(model_data, "temperature"), PyFloat(0))
        top_p == CoerceFloat(PyGet(model_data, "top_p"), PyFloat(2))
        max_tokens == CoerceInt(PyGet(model_data, "max_tokens"), PyInt(4096))
        seed == CoerceOptionalInt(PyGet(model_data, "seed"))
        total_turns == CoerceInt(PyGet(summary_data, "total_turns"), PyInt(0))
        total_duration_ms == CoerceFloat(PyGet(summary_data, "total_duration_ms"),
                                         PyFloat(0))
        prompt == CoerceInt(PyGet(tokens_data, "prompt"), PyInt(0))
        completion == CoerceInt(PyGet(tokens_data, "completion"), PyInt(0))
        total == CoerceInt(PyGet(tokens_data, "total"), PyInt(0))
        tool_calls_total == CoerceInt(PyGet(summary_data, "total_tool_calls"), PyInt(0))
        estimated_cost_usd == CoerceFloat(PyGet(summary_data, "estimated_cost_usd"),
                                          PyFloat(0))
        turns_data == DecodableTurns(CoerceList(PyGet(data, "turns")))
        turns == [i \in 1..Len(turns_data) |-> TurnFromDict(turns_data[i])]
        raised == FirstRaised(<<temperature, top_p, max_tokens, seed, total_turns,
                                total_duration_ms, prompt, completion, total,
                                tool_calls_total, estimated_cost_usd>> \o turns)
    IN IF raised # "none" THEN Raises(raised)
       ELSE Returns(
           [schema_version |-> CoerceStr(PyGet(data, "schema_version"), PyStr("1.0.0")),
            run_id |-> CoerceStr(PyGet(data, "run_id"), PyStr("")),
            recorded_at |-> CoerceStr(PyGet(source, "recorded_at"), PyStr("")),
            recorder_version |-> CoerceStr(PyGet(source, "recorder_version"), PyStr("")),
            sdk |-> CoerceStr(PyGet(source, "sdk"), PyStr("agentcontract-python")),
            model |-> [provider |-> CoerceStr(PyGet(model_data, "provider"), PyStr("")),
                       model |-> CoerceStr(PyGet(model_data, "model"), PyStr("")),
                       temperature |-> temperature.value,
                       top_p |-> top_p.value,
                       max_tokens |-> max_tokens.value,
                       seed |-> seed.value],
            metadata |-> [scenario |-> CoerceStr(PyGet(meta, "scenario"), PyStr("")),
                          tags |-> tags,
                          description |-> CoerceStr(PyGet(meta, "description"),
                                                    PyStr(""))],
            summary |-> [total_turns |-> total_turns.value.n,
                         total_duration_ms |-> total_duration_ms.value,
                         total_tokens |-> TokenUsage(prompt.value.n, completion.value.n,
                                                     total.value.n),
                         total_tool_calls |-> tool_calls_total.value.n,
                         estimated_cost_usd |-> estimated_cost_usd.value],
            turns |-> [i \in 1..Len(turns) |-> turns[i].value]])

(***************************************************************************)
(* recorder/core.py: Recorder                                              *)
(***************************************************************************)
\* Python truth of a value ("tags or []", "if tool_calls:").
Truthy(v) ==
    CASE v.k = "none" -> FALSE
      [] v.k \in {"int", "float"} -> v.n # 0 \/ v.s \notin {"", "fin"}
      [] v.k = "str" -> v.s # "" \/ v.xs # <<>>
      [] v.k \in {"list", "tuple", "dict", "set", "frozenset"} -> v.xs # <<>>
      [] OTHER -> TRUE

\* RunSummary()
ZeroSummary ==
    [total_turns |-> 0, total_duration_ms |-> PyFloat(0),
     total_tokens |-> TokenUsage(0, 0, 0), total_tool_calls |-> 0,
     estimated_cost_usd |-> PyFloat(0)]

\* The AgentRun built by Recorder.__init__; run_id and recorded_at are fresh strings.
NewRun(scenario, tags, description, model_provider, model_name, temperature, seed) ==
    [schema_version |-> PyStr("1.0.0"),
     run_id |-> PyStr("uuid4"),
     recorded_at |-> PyStr("utcnow"),
     recorder_version |-> PyStr("0.1.0"),
     sdk |-> PyStr("agentcontract-python"),
     model |-> [provider |-> model_provider, model |-> model_name,
                temperature |-> temperature, top_p |-> PyFloat(2),
                max_tokens |-> PyInt(4096), seed |-> seed],
     metadata |-> [scenario |-> scenario,
                   tags |-> IF Truthy(tags) THEN tags ELSE PyList(<<>>),
                   description |-> description],
     summary |-> ZeroSummary,
     turns |-> <<>>]

\* What "for tc in tool_calls" iterates over; a str yields its characters, which
\* are no dicts, and a dict yields its keys.
Iterate(v) ==
    CASE v.k \in {"list", "tuple", "set", "frozenset"} -> Returns(v.xs)
      [] v.k = "dict" -> Returns([i \in 1..Len(v.xs) |-> v.xs[i].xs[1]])
      [] v.k = "str" -> Returns(<<>>)
      [] OTHER -> Raises("TypeError")

\* Mutant of ParseToolCall: the id is stored as given, without str().
ParseToolCallRawId(tc) ==
    LET duration_ms == CoerceOptionalFloat(PyGet(tc, "duration_ms"))
    IN IF duration_ms.raises # "none" THEN Raises(duration_ms.raises)
       ELSE Returns(ToolCall(PyGet(tc, "id"),
                             IF IsNone(PyGet(tc, "function")) THEN PyStr("")
                             ELSE Str(PyGet(tc, "function")),
                             IF IsDict(PyGet(tc, "arguments")) THEN PyGet(tc, "arguments")
                             ELSE EmptyDict,
                             PyGet(tc, "result"),
                             duration_ms.value))

\* The ToolCall add_turn parses from one entry that is a dict.
ParseToolCall(tc) ==
    LET raw_arguments == PyGet(tc, "arguments")
        raw_id == PyGet(tc, "id")
        raw_function == PyGet(tc, "function")
        duration_ms == CoerceOptionalFloat(PyGet(tc, "duration_ms"))
    IN IF duration_ms.raises # "none" THEN Raises(duration_ms.raises)
       ELSE Returns(ToolCall(IF IsNone(raw_id) THEN PyStr("") ELSE Str(raw_id),
                             IF IsNone(raw_function) THEN PyStr("") ELSE Str(raw_function),
                             IF IsDict(raw_arguments) THEN raw_arguments ELSE EmptyDict,
                             PyGet(tc, "result"),
                             duration_ms.value))

\* TurnRole(role)
TurnRoleValue(role) ==
    IF IsStr(role) /\ role.xs = <<>> /\ role.s \in TurnRole
    THEN Returns(role.s) ELSE Raises("ValueError")

\* Mutant of CountedToolCalls: the supplied entries are counted, not the parsed ones.
CountedToolCallsSupplied(entries, parsed) == Len(entries)

\* add_turn: "self._total_tool_calls += len(parsed_tool_calls)"
CountedToolCalls(entries, parsed) == Len(parsed)

\* Mutant of IndexAfter: the index advances on every add_turn call.
IndexAfterAnyCall(index, appended) == index + 1

\* add_turn: "self._turn_index += 1", reached only when the turn was appended.
IndexAfter(index, appended) == IF appended THEN index + 1 ELSE index

\* Recorder.add_turn: the exception it raises or the Turn it appends, and the
\* running counters after it.  The counters are written where the code writes
\* them, so a call that raises later keeps what it had added before.
AddTurnOutcome(role, content, tool_calls, latency_ms, prompt_tokens, completion_tokens) ==
    LET normalized_content ==
            IF ~IsNone(content) /\ ~IsStr(content) THEN Str(content) ELSE content
        iterated == IF Truthy(tool_calls) THEN Iterate(tool_calls) ELSE Returns(<<>>)
        entries == IF iterated.raises = "none" THEN iterated.value ELSE <<>>
        dicts == OnlyDicts(entries)
        parsed == [i \in 1..Len(dicts) |-> ParseToolCall(dicts[i])]
        parse_raised == FirstRaised(<<iterated>> \o parsed)
        parsed_tool_calls == [i \in 1..Len(parsed) |-> parsed[i].value]
        tool_calls_1 == IF parse_raised = "none" /\ Truthy(tool_calls)
                        THEN total_tool_calls + CountedToolCalls(entries, parsed_tool_calls)
                        ELSE total_tool_calls
        latency == CoerceOptionalFloat(latency_ms)
        timing == IF ~IsNone(latency.value) THEN Some(Timing(latency.value, PyNone))
                  ELSE None
        prompt == CoerceInt(prompt_tokens, PyInt(0))
        completion == CoerceInt(completion_tokens, PyInt(0))
        coerce_raised == FirstRaised(<<iterated>> \o parsed \o <<latency, prompt, completion>>)
        counted == prompt.value.n # 0 \/ completion.value.n # 0
        tokens == IF counted
                  THEN Some(TokenUsage(prompt.value.n, completion.value.n,
                                       prompt.value.n + completion.value.n))
                  ELSE None
        prompt_1 == IF counted THEN total_prompt_tokens + prompt.value.n
                    ELSE total_prompt_tokens
        completion_1 == IF counted THEN total_completion_tokens + completion.value.n
                        ELSE total_completion_tokens
        turn_role == TurnRoleValue(role)
    IN IF coerce_raised # "none"
       THEN [raises |-> coerce_raised, turn |-> None, tool_calls |-> tool_calls_1,
             prompt |-> total_prompt_tokens, completion |-> total_completion_tokens]
       ELSE IF turn_role.raises # "none"
       THEN [raises |-> turn_role.raises, turn |-> None, tool_calls |-> tool_calls_1,
             prompt |-> prompt_1, completion |-> completion_1]
       ELSE [raises |-> "none",
             turn |-> Some(Turn(turn_index, turn_role.value, normalized_content,
                                parsed_tool_calls, timing, tokens)),
             tool_calls |-> tool_calls_1, prompt |-> prompt_1,
             completion |-> completion_1]

\* The RunSummary the finally clause of recording() writes; now is the reading
\* of time.monotonic() there.
FinalSummary(now) ==
    LET elapsed == IF start_time # None THEN now - start_time[1] ELSE 0
    IN [total_turns |-> Len(run.turns),
        total_duration_ms |-> PyFloat(2 * elapsed * 1000),
        total_tokens |-> TokenUsage(total_prompt_tokens, total_completion_tokens,
                                    total_prompt_tokens + total_completion_tokens),
        total_tool_calls |-> total_tool_calls,
        estimated_cost_usd |-> PyFloat(0)]

(***************************************************************************)
(* recorder/interceptors.py: the OpenAI interceptor                        *)
(***************************************************************************)
\* key in d, for a Python dict value d.
HasKey(d, key) == \E i \in 1..Len(d.xs) : d.xs[i].xs[1] = PyStr(key)

\* _get_field: a dict is read with .get(name, default); any other value here
\* is a plain value (a str, a number, a list) and has no such attribute.
GetField(obj, name, default) ==
    IF IsNone(obj) THEN default
    ELSE IF IsDict(obj) THEN (IF HasKey(obj, name) THEN PyGet(obj, name) ELSE default)
    ELSE default

\* A JSON integer: an optional minus sign and digits without a leading zero.
IsJsonIntText(t) ==
    /\ IsIntText(t) /\ ~StartsWith(t, "+")
    /\ LET digits == IF StartsWith(t, "-") THEN SubSeq(t, 2, Len(t)) ELSE t
       IN Len(digits) = 1 \/ ~StartsWith(digits, "0")

\* json.loads on the texts a tool call's arguments come as: an object, an
\* integer, or a text that is no JSON.
JsonLoads(value) ==
    CASE ~IsStr(value) -> Raises("TypeError")
      [] value.s = "{}" -> Returns(EmptyDict)
      [] value.s = "{\"order_id\": \"123\"}" ->
            Returns(PyDict(<<PyItem(PyStr("order_id"), PyStr("123"))>>))
      [] IsJsonIntText(value.s) -> Returns(PyInt(IntOfText(value.s)))
      [] OTHER -> Raises("JSONDecodeError")

\* The outcome of json.loads as _safe_parse_json turns it into a dict.
ParsedArguments(value, loaded) ==
    IF loaded.raises # "none" THEN PyDict(<<PyItem(PyStr("_raw"), value)>>)
    ELSE IF ~IsDict(loaded.value) THEN PyDict(<<PyItem(PyStr("_value"), loaded.value)>>)
    ELSE loaded.value

\* _safe_parse_json
SafeParseJson(value) ==
    IF IsDict(value) THEN value
    ELSE IF IsNone(value) THEN EmptyDict
    ELSE ParsedArguments(value, JsonLoads(value))

\* The dict _record_openai_response builds for a raw tool call whose function
\* has a name.
OpenAIToolCallData(tc) ==
    PyDict(<<PyItem(PyStr("id"), GetField(tc, "id", PyStr(""))),
             PyItem(PyStr("function"),
                    GetField(GetField(tc, "function", PyNone), "name", PyStr(""))),
             PyItem(PyStr("arguments"),
                    SafeParseJson(GetField(GetField(tc, "function", PyNone),
                                           "arguments", PyNone)))>>)

\* Mutant of NamedToolCall: only an entry without a function is left out.
NamedToolCallWithFunction(tc) == ~IsNone(GetField(tc, "function", PyNone))

\* "if not function_name: continue": the raw tool call is kept.
NamedToolCall(tc) ==
    Truthy(GetField(GetField(tc, "function", PyNone), "name", PyStr("")))

\* The loop of _record_openai_response over raw_tool_calls.
RECURSIVE OpenAIToolCallsData(_)
OpenAIToolCallsData(raw) ==
    IF raw = <<>> THEN <<>>
    ELSE (IF NamedToolCall(Head(raw)) THEN <<OpenAIToolCallData(Head(raw))>> ELSE <<>>)
         \o OpenAIToolCallsData(Tail(raw))

\* raw_tool_calls of _record_openai_response: the message's tool_calls when
\* they are a non-empty list or tuple.
RawToolCalls(message) ==
    IF GetField(message, "tool_calls", PyList(<<>>)).k \in {"list", "tuple"}
    THEN GetField(message, "tool_calls", PyList(<<>>)).xs
    ELSE <<>>

\* The first choice's message, None when the response has no usable choices.
FirstMessage(response) ==
    IF GetField(response, "choices", PyList(<<>>)).k \notin {"list", "tuple"}
       \/ GetField(response, "choices", PyList(<<>>)).xs = <<>>
    THEN PyNone
    ELSE GetField(GetField(response, "choices", PyList(<<>>)).xs[1], "message", PyNone)

\* run.model after _record_openai_response has read the response's model.
ModelAfter(response) ==
    IF Truthy(GetField(response, "model", PyNone))
    THEN [run.model EXCEPT !.model = GetField(response, "model", PyNone),
                           !.provider = PyStr("openai")]
    ELSE run.model

\* The counters and turn of a call that appends nothing and raises e ("none"
\* when it returns).
NothingAdded(e) ==
    [raises |-> e, turn |-> None, tool_calls |-> total_tool_calls,
     prompt |-> total_prompt_tokens, completion |-> total_completion_tokens]

\* The add_turn call _record_openai_response ends with, its token counts
\* already coerced.
OpenAIAddTurn(message, data, latency_ms, prompt, completion) ==
    IF prompt.raises # "none" THEN NothingAdded(prompt.raises)
    ELSE IF completion.raises # "none" THEN NothingAdded(completion.raises)
    ELSE AddTurnOutcome(PyStr("assistant"), GetField(message, "content", PyNone),
                        IF data = <<>> THEN PyNone ELSE PyList(data),
                        latency_ms, prompt.value, completion.value)

\* _record_openai_response: what it raises, the Turn it has add_turn append,
\* and the running counters after it.
RecordOpenAIOutcome(response, latency_ms) ==
    IF IsNone(FirstMessage(response)) THEN NothingAdded("none")
    ELSE OpenAIAddTurn(FirstMessage(response),
                       OpenAIToolCallsData(RawToolCalls(FirstMessage(response))),
                       latency_ms,
                       CoerceInt(GetField(GetField(response, "usage", PyNone),
                                          "prompt_tokens", PyInt(0)), PyInt(0)),
                       CoerceInt(GetField(GetField(response, "usage", PyNone),
                                          "completion_tokens", PyInt(0)), PyInt(0)))

(***************************************************************************)
(* replay/engine.py: ToolStub                                              *)
(***************************************************************************)
\* One pass of the inner loop of ToolStub.__init__ over a turn's tool calls.
RECURSIVE IndexCalls(_, _)
IndexCalls(calls, d) ==
    IF calls = <<>> THEN d
    ELSE LET tc == Head(calls)
             d1 == IF tc.function \notin DOMAIN d
                   THEN DictSet(d, tc.function, <<>>) ELSE d
         IN IndexCalls(Tail(calls),
                       DictSet(d1, tc.function,
                               Append(d1[tc.function], <<tc.arguments, tc.result>>)))

\* The outer loop of ToolStub.__init__ over the run's turns.
RECURSIVE IndexTurns(_, _)
IndexTurns(turns, d) ==
    IF turns = <<>> THEN d
    ELSE IndexTurns(Tail(turns), IndexCalls(Head(turns).tool_calls, d))

\* ToolStub.__init__: _tool_calls after construction (_call_counts is empty).
ToolStubInit(turns) == IndexTurns(turns, EmptyMap)

\* Mutant of StubEntry: the queue read from its newest entry.
StubEntryNewestFirst(calls, count) == calls[Len(calls) - count]

\* The entry get_result reads: calls[count], Python's zero-based index.
StubEntry(calls, count) == calls[count + 1]

\* Mutant of GetResultOutcome: every request is counted, also one that fails.
GetResultOutcomeCountingFailures(function, arguments) ==
    LET count == DictGet(stub_call_counts, function, 0)
        calls == DictGet(stub_tool_calls, function, <<>>)
        counted == DictSet(stub_call_counts, function, count + 1)
    IN IF count >= Len(calls)
       THEN [outcome |-> "ToolStubExhausted", result |-> PyNone, counts |-> counted,
             requested |-> count + 1, available |-> Len(calls)]
       ELSE IF ~IsNone(arguments) /\ arguments # StubEntry(calls, count)[1]
       THEN [outcome |-> "ToolStubArgumentsMismatch", result |-> PyNone,
             counts |-> counted, requested |-> count + 1, available |-> Len(calls)]
       ELSE [outcome |-> "ok", result |-> StubEntry(calls, count)[2], counts |-> counted,
             requested |-> count + 1, available |-> Len(calls)]

\* ToolStub.get_result: what it raises or returns, and _call_counts after it.
GetResultOutcome(function, arguments) ==
    LET count == DictGet(stub_call_counts, function, 0)
        calls == DictGet(stub_tool_calls, function, <<>>)
    IN IF count >= Len(calls)
       THEN [outcome |-> "ToolStubExhausted", result |-> PyNone,
             counts |-> stub_call_counts,
             requested |-> count + 1, available |-> Len(calls)]
       ELSE LET expected_arguments == StubEntry(calls, count)[1]
                result == StubEntry(calls, count)[2]
            IN IF ~IsNone(arguments) /\ arguments # expected_arguments
               THEN [outcome |-> "ToolStubArgumentsMismatch", result |-> PyNone,
                     counts |-> stub_call_counts,
                     requested |-> count + 1, available |-> Len(calls)]
               ELSE [outcome |-> "ok", result |-> result,
                     counts |-> DictSet(stub_call_counts, function, count + 1),
                     requested |-> count + 1, available |-> Len(calls)]

\* Mutant of HasResultsValue: the comparison admits the end of the queue.
HasResultsValueAtEnd(function) ==
    DictGet(stub_call_counts, function, 0) <= Len(DictGet(stub_tool_calls, function, <<>>))

\* ToolStub.has_results
HasResultsValue(function) ==
    LET count == DictGet(stub_call_counts, function, 0)
        calls == DictGet(stub_tool_calls, function, <<>>)
    IN count < Len(calls)

(***************************************************************************)
(* replay/engine.py: ReplayEngine.finish                                   *)
(***************************************************************************)
ReplayResult(matched_tools, mismatched_tools, missing_tools, extra_tools, errors) ==
    [matched_tools |-> matched_tools, mismatched_tools |-> mismatched_tools,
     missing_tools |-> missing_tools, extra_tools |-> extra_tools, errors |-> errors]

\* "result = ReplayResult(run=self._recorded)"
NewReplayResult == ReplayResult(0, 0, 0, 0, <<>>)

\* ReplayResult.ok
ReplayOk(result) == Len(result.errors) = 0 /\ result.mismatched_tools = 0

\* An entry of ReplayResult.errors: the message's kind and the numbers and
\* names it is formatted from (turn and tool are the code's zero-based i and
\* j, -1 where the message has none).
ReplayError(kind, turn, tool, function, expected, got) ==
    [kind |-> kind, turn |-> turn, tool |-> tool, function |-> function,
     expected |-> expected, got |-> got]

\* The keys of ToolStub._tool_calls in the order __init__ inserted them: the
\* functions of the recorded calls, by first occurrence.
RECURSIVE FirstOccurrences(_, _)
FirstOccurrences(calls, keys) ==
    IF calls = <<>> THEN keys
    ELSE FirstOccurrences(Tail(calls),
                          IF \E k \in 1..Len(keys) : keys[k] = Head(calls).function
                          THEN keys ELSE Append(keys, Head(calls).function))
RECURSIVE StubKeys(_, _)
StubKeys(turns, keys) ==
    IF turns = <<>> THEN keys
    ELSE StubKeys(Tail(turns), FirstOccurrences(Head(turns).tool_calls, keys))

\* Mutant of Unconsumed: one missing call is reported per function.
UnconsumedOnePerFunction(result, func, recorded_count, count) ==
    IF recorded_count - count > 0
    THEN [result EXCEPT !.missing_tools = @ + 1,
                        !.errors = Append(@, ReplayError("unconsumed", -1, -1, func,
                                                         recorded_count, count))]
    ELSE result

\* finish(None), one pass of the loop over _tool_calls.items().
Unconsumed(result, func, recorded_count, count) ==
    IF recorded_count - count > 0
    THEN [result EXCEPT !.missing_tools = @ + (recorded_count - count),
                        !.errors = Append(@, ReplayError("unconsumed", -1, -1, func,
                                                         recorded_count, count))]
    ELSE result

\* finish(None): the loop over _tool_calls.items().
RECURSIVE StubConsumption(_, _)
StubConsumption(keys, result) ==
    IF keys = <<>> THEN result
    ELSE StubConsumption(Tail(keys),
                         Unconsumed(result, Head(keys), Len(stub_tool_calls[Head(keys)]),
                                    DictGet(stub_call_counts, Head(keys), 0)))

\* Mutant of ExtraTurn: a turn without tool calls records no error.
ExtraTurnWithCallsOnly(result, i, extra_call_count) ==
    IF extra_call_count # 0
    THEN [result EXCEPT !.extra_tools = @ + extra_call_count,
                        !.mismatched_tools = @ + extra_call_count,
                        !.errors = Append(@, ReplayError("extra_turn", i, -1, PyNone,
                                                         0, extra_call_count))]
    ELSE result

\* finish(actual_turns): "if i >= len(recorded_turns)".
ExtraTurn(result, i, extra_call_count) ==
    [result EXCEPT
        !.extra_tools = IF extra_call_count # 0 THEN @ + extra_call_count ELSE @,
        !.mismatched_tools = IF extra_call_count # 0 THEN @ + extra_call_count ELSE @,
        !.errors = Append(@, ReplayError("extra_turn", i, -1, PyNone,
                                         0, extra_call_count))]

\* finish(actual_turns): "if actual.role != expected.role".
RoleChecked(result, i, actual_role, expected_role) ==
    IF actual_role # expected_role
    THEN [result EXCEPT !.errors = Append(@, ReplayError("role", i, -1, PyNone,
                                                         expected_role, actual_role))]
    ELSE result

\* Mutant of CountDifference: the difference is bucketed, not counted mismatched.
CountDifferenceBucketedOnly(result, i, expected_count, actual_count) ==
    [result EXCEPT
        !.extra_tools = IF actual_count - expected_count > 0
                        THEN @ + (actual_count - expected_count) ELSE @,
        !.missing_tools = IF actual_count - expected_count > 0
                          THEN @ ELSE @ + (expected_count - actual_count),
        !.errors = Append(@, ReplayError("count", i, -1, PyNone,
                                         expected_count, actual_count))]

\* finish(actual_turns): "if len(actual.tool_calls) != len(expected.tool_calls)";
\* abs(diff) is the difference taken from the larger count.
CountDifference(result, i, expected_count, actual_count) ==
    [result EXCEPT
        !.extra_tools = IF actual_count - expected_count > 0
                        THEN @ + (actual_count - expected_count) ELSE @,
        !.missing_tools = IF actual_count - expected_count > 0
                          THEN @ ELSE @ + (expected_count - actual_count),
        !.mismatched_tools = @ + (IF actual_count > expected_count
                                  THEN actual_count - expected_count
                                  ELSE expected_count - actual_count),
        !.errors = Append(@, ReplayError("count", i, -1, PyNone,
                                         expected_count, actual_count))]

\* Mutant of ComparePair: only the function names are compared.
ComparePairByName(result, i, j, act_tc, exp_tc) ==
    IF act_tc.function # exp_tc.function
    THEN [result EXCEPT !.mismatched_tools = @ + 1,
                        !.errors = Append(@, ReplayError("function", i, j, PyNone,
                                                         exp_tc.function, act_tc.function))]
    ELSE [result EXCEPT !.matched_tools = @ + 1]

\* A comparison in which a pair of calls with different ids is mismatched too.
ComparePairWithId(result, i, j, act_tc, exp_tc) ==
    IF act_tc.function # exp_tc.function
    THEN [result EXCEPT !.mismatched_tools = @ + 1,
                        !.errors = Append(@, ReplayError("function", i, j, PyNone,
                                                         exp_tc.function, act_tc.function))]
    ELSE IF act_tc.arguments # exp_tc.arguments \/ act_tc.id # exp_tc.id
    THEN [result EXCEPT !.mismatched_tools = @ + 1,
                        !.errors = Append(@, ReplayError("arguments", i, j, act_tc.function,
                                                         exp_tc.arguments, act_tc.arguments))]
    ELSE [result EXCEPT !.matched_tools = @ + 1]

\* finish(actual_turns): one pass of the loop over zip(actual.tool_calls,
\* expected.tool_calls).
ComparePair(result, i, j, act_tc, exp_tc) ==
    IF act_tc.function # exp_tc.function
    THEN [result EXCEPT !.mismatched_tools = @ + 1,
                        !.errors = Append(@, ReplayError("function", i, j, PyNone,
                                                         exp_tc.function, act_tc.function))]
    ELSE IF act_tc.arguments # exp_tc.arguments
    THEN [result EXCEPT !.mismatched_tools = @ + 1,
                        !.errors = Append(@, ReplayError("arguments", i, j, act_tc.function,
                                                         exp_tc.arguments, act_tc.arguments))]
    ELSE [result EXCEPT !.matched_tools = @ + 1]

\* finish(actual_turns): the loop over the zipped tool calls, from pair j on.
RECURSIVE ComparePairs(_, _, _, _, _)
ComparePairs(result, i, j, act_calls, exp_calls) ==
    IF j >= Len(act_calls) \/ j >= Len(exp_calls) THEN result
    ELSE ComparePairs(ComparePair(result, i, j, act_calls[j + 1], exp_calls[j + 1]),
                      i, j + 1, act_calls, exp_calls)

\* finish(actual_turns): the tool-call check of a turn both sequences hold.
CompareCalls(result, i, act_calls, exp_calls) ==
    IF Len(act_calls) # Len(exp_calls)
    THEN CountDifference(result, i, Len(exp_calls), Len(act_calls))
    ELSE ComparePairs(result, i, 0, act_calls, exp_calls)

\* finish(actual_turns): one pass of the loop over enumerate(actual_turns).
CompareTurn(result, i, actual, recorded_turns) ==
    IF i >= Len(recorded_turns) THEN ExtraTurn(result, i, Len(actual.tool_calls))
    ELSE CompareCalls(RoleChecked(result, i, actual.role, recorded_turns[i + 1].role),
                      i, actual.tool_calls, recorded_turns[i + 1].tool_calls)

\* finish(actual_turns): the loop over enumerate(actual_turns); steps holds the
\* result as it stood before the loop and after every pass so far.
RECURSIVE CompareTurns(_, _, _)
CompareTurns(actual_turns, recorded_turns, steps) ==
    IF Len(steps) > Len(actual_turns) THEN steps
    ELSE CompareTurns(actual_turns, recorded_turns,
                      Append(steps, CompareTurn(steps[Len(steps)], Len(steps) - 1,
                                                actual_turns[Len(steps)], recorded_turns)))

\* sum(len(turn.tool_calls) for turn in missing_turns)
RECURSIVE ToolCallCount(_)
ToolCallCount(turns) ==
    IF turns = <<>> THEN 0 ELSE Len(Head(turns).tool_calls) + ToolCallCount(Tail(turns))

\* Mutant of MissingTurns: the missing calls are not counted mismatched.
MissingTurnsNotMismatched(result, actual_count, recorded_turns, missing_call_count) ==
    IF actual_count < Len(recorded_turns)
    THEN [result EXCEPT
             !.missing_tools = @ + missing_call_count,
             !.errors = Append(@, ReplayError("missing_turns", -1, -1, PyNone,
                                              Len(recorded_turns), actual_count))]
    ELSE result

\* finish(actual_turns): "if len(actual_turns) < len(recorded_turns)".
MissingTurns(result, actual_count, recorded_turns, missing_call_count) ==
    IF actual_count < Len(recorded_turns)
    THEN [result EXCEPT
             !.missing_tools = IF missing_call_count # 0 THEN @ + missing_call_count ELSE @,
             !.mismatched_tools = IF missing_call_count # 0 THEN @ + missing_call_count
                                  ELSE @,
             !.errors = Append(@, ReplayError("missing_turns", -1, -1, PyNone,
                                              Len(recorded_turns), actual_count))]
    ELSE result

\* finish(actual_turns) once the loop has left its steps.
Compared(steps, actual_turns, recorded_turns) ==
    [steps |-> steps,
     result |-> MissingTurns(steps[Len(steps)], Len(actual_turns), recorded_turns,
                             ToolCallCount(SubSeq(recorded_turns, Len(actual_turns) + 1,
                                                  Len(recorded_turns))))]

\* ReplayEngine.finish: the ReplayResult it returns, and the result as it stood
\* after every pass of the loop over the actual turns (none for finish(None)).
FinishOutcome(actual_turns) ==
    IF actual_turns = None
    THEN [steps |-> <<>>,
          result |-> StubConsumption(StubKeys(recorded, <<>>), NewReplayResult)]
    ELSE Compared(CompareTurns(actual_turns[1], recorded, <<NewReplayResult>>),
                  actual_turns[1], recorded)

\* ---- inputs of the replay specification ----
MaxRecordedTurns == 2

LookupOrder == PyStr("lookup_order")
ProcessRefund == PyStr("process_refund")
NonexistentTool == PyStr("nonexistent_tool")
StubFunctions == {LookupOrder, ProcessRefund, NonexistentTool}

Order123 == PyDict(<<PyItem(PyStr("order_id"), PyStr("123"))>>)
Order456 == PyDict(<<PyItem(PyStr("order_id"), PyStr("456"))>>)
\* arguments=None is the default: no arguments supplied.
StubArguments == {PyNone, Order123, Order456, EmptyDict}

RecordedCallA == ToolCall(PyStr("tc1"), LookupOrder, Order123, PyStr("r1"), PyNone)
RecordedCallB == ToolCall(PyStr("tc2"), LookupOrder, Order456, PyStr("r2"), PyNone)
RecordedCallC == ToolCall(PyStr("tc3"), ProcessRefund, Order123, PyStr("r3"), PyNone)
RecordedCallLists ==
    {<<>>, <<RecordedCallA>>, <<RecordedCallB>>, <<RecordedCallC>>,
     <<RecordedCallA, RecordedCallB>>, <<RecordedCallB, RecordedCallA>>,
     <<RecordedCallC, RecordedCallA>>}

\* The turns of a recorded run: position i holds index i (Recorder.add_turn).
RecordedTurnsOfLen(n) ==
    {[i \in 1..n |-> Turn(i - 1, IF cs[i] = <<>> THEN "user" ELSE "assistant",
                          PyNone, cs[i], None, None)] :
        cs \in [1..n -> RecordedCallLists]}
RecordedRuns == UNION {RecordedTurnsOfLen(n) : n \in 0..MaxRecordedTurns}

\* ---- the replay specification ----
NoStubOp == [op |-> "none", function |-> PyNone, arguments |-> PyNone,
             outcome |-> "none", result |-> PyNone, requested |-> 0, available |-> 0,
             before |-> EmptyMap, after_mismatch |-> PyNone, value |-> FALSE,
             actual |-> None, steps |-> <<>>, finished |-> NewReplayResult]

\* ReplayEngine(run): the stub as constructed from a recorded run.
StubConstructed(runs) ==
    /\ recorded \in runs
    /\ stub_tool_calls = ToolStubInit(recorded)
    /\ stub_call_counts = EmptyMap
    /\ returned = [f \in StubFunctions |-> <<>>]
    /\ exhausted = {}
    /\ run = Idle /\ start_time = Idle /\ turn_index = Idle
    /\ total_tool_calls = Idle /\ total_prompt_tokens = Idle
    /\ total_completion_tokens = Idle /\ open_sessions = Idle
    /\ rec_last = Idle /\ rec_hist = Idle
    /\ doc = Idle /\ decoded = Idle
    /\ chk_run = Idle /\ chk_assertions = Idle /\ chk_policies = Idle /\ chk_out = Idle

\* The function whose get_result has just failed ArgumentsMismatch, if one has.
MismatchedJustNow ==
    IF stub_last.outcome = "ToolStubArgumentsMismatch" THEN stub_last.function ELSE PyNone

\* stub.get_result(function, arguments)
GetResultCalled(function, arguments) ==
        LET r == GetResultOutcome(function, arguments)
        IN /\ stub_call_counts' = r.counts
           /\ stub_last' = [op |-> "get_result", function |-> function,
                            arguments |-> arguments, outcome |-> r.outcome,
                            result |-> r.result, requested |-> r.requested,
                            available |-> r.available, before |-> stub_call_counts,
                            after_mismatch |-> MismatchedJustNow, value |-> FALSE,
                            actual |-> None, steps |-> <<>>,
                            finished |-> NewReplayResult]
           /\ returned' = IF r.outcome = "ok"
                          THEN [returned EXCEPT ![function] = Append(@, r.result)]
                          ELSE returned
           /\ exhausted' = IF r.outcome = "ToolStubExhausted"
                           THEN exhausted \cup {function} ELSE exhausted
           /\ UNCHANGED <<recorded, stub_tool_calls>>
           /\ UNCHANGED <<recVars, decVars, chkVars>>

GetResult ==
    \E function \in StubFunctions, arguments \in StubArguments :
        GetResultCalled(function, arguments) /\ UNCHANGED requests

\* stub.has_results(function)
HasResults ==
    \E function \in StubFunctions :
        /\ stub_last' = [NoStubOp EXCEPT !.op = "has_results", !.function = function,
                                         !.before = stub_call_counts,
                                         !.after_mismatch = MismatchedJustNow,
                                         !.value = HasResultsValue(function)]
        /\ UNCHANGED <<recorded, stub_tool_calls, stub_call_counts, returned, exhausted,
                       requests>>
        /\ UNCHANGED <<recVars, decVars, chkVars>>

\* A finish that clears the stub's call counts once it has reported.
FinishResettingCounts(actual_turns) ==
        /\ stub_last' = [NoStubOp EXCEPT !.op = "finish", !.before = stub_call_counts,
                                         !.after_mismatch = MismatchedJustNow,
                                         !.actual = actual_turns,
                                         !.steps = FinishOutcome(actual_turns).steps,
                                         !.finished = FinishOutcome(actual_turns).result]
        /\ stub_call_counts' = EmptyMap
        /\ UNCHANGED <<recorded, stub_tool_calls, returned, exhausted, requests>>
        /\ UNCHANGED <<recVars, decVars, chkVars>>

\* engine.finish(actual_turns)
Finish(actual_turns) ==
        /\ stub_last' = [NoStubOp EXCEPT !.op = "finish", !.before = stub_call_counts,
                                         !.after_mismatch = MismatchedJustNow,
                                         !.actual = actual_turns,
                                         !.steps = FinishOutcome(actual_turns).steps,
                                         !.finished = FinishOutcome(actual_turns).result]
        /\ UNCHANGED <<recorded, stub_tool_calls, stub_call_counts, returned, exhausted,
                       requests>>
        /\ UNCHANGED <<recVars, decVars, chkVars>>

\* engine.finish()
FinishStubsOnly == Finish(None)

\* engine.finish(actual_turns) during a replay: on the recorded turns
\* themselves, or on all of them but the last.
FinishActual ==
    \E actual_turns \in {recorded, SubSeq(recorded, 1, Len(recorded) - 1)} :
        Finish(Some(actual_turns))

InitReplay == StubConstructed(RecordedRuns) /\ stub_last = NoStubOp /\ requests = Idle

NextReplay == GetResult \/ HasResults \/ FinishStubsOnly \/ FinishActual

SpecReplay == InitReplay /\ [][NextReplay]_vars

\* ---- the replay specification with the requests counted ----
MaxRequests == 2     \* get_result calls per function

\* The stub of a recorded run of one turn, no get_result call made yet.
InitRequests ==
    /\ StubConstructed(RecordedTurnsOfLen(1))
    /\ stub_last = NoStubOp
    /\ requests = [f \in StubFunctions |-> 0]

\* stub.get_result(function, arguments), counted as a request of the function.
GetResultCounted ==
    \E function \in StubFunctions, arguments \in StubArguments :
        /\ requests[function] < MaxRequests
        /\ GetResultCalled(function, arguments)
        /\ requests' = [requests EXCEPT ![function] = @ + 1]

NextRequests == GetResultCounted

SpecRequests == InitRequests /\ [][NextRequests]_vars

\* ---- the finish specification: finish(actual_turns) on a fresh engine ----
\* lookup_order as recorded in RecordedCallA, with another id, result and duration.
ActualCallA == ToolCall(PyStr("call_9"), LookupOrder, Order123, PyStr("live"), PyFloat(21))
\* process_refund with other arguments than RecordedCallC has.
ActualCallRefund == ToolCall(PyStr("tc3"), ProcessRefund, Order456, PyStr("r3"), PyNone)

\* The role and the tool calls of an actual turn.
ActualTurnShapes ==
    {<<"user", <<>>>>, <<"assistant", <<>>>>,
     <<"assistant", <<ActualCallA>>>>,
     <<"user", <<ActualCallRefund>>>>,
     <<"assistant", <<ActualCallA, RecordedCallB>>>>,
     <<"assistant", <<RecordedCallB, ActualCallA, RecordedCallC>>>>}

\* An actual turn with tool calls has content, timing and tokens of its own;
\* the recorded turns have none.
LiveContent(calls) == IF calls = <<>> THEN PyNone ELSE PyStr("live")
LiveTiming(calls) == IF calls = <<>> THEN None ELSE Some(Timing(PyFloat(21), PyNone))
LiveTokens(calls) == IF calls = <<>> THEN None ELSE Some(TokenUsage(3, 2, 5))

ActualTurnsOfLen(n) ==
    {[i \in 1..n |-> Turn(i - 1, shapes[i][1], LiveContent(shapes[i][2]), shapes[i][2],
                          LiveTiming(shapes[i][2]), LiveTokens(shapes[i][2]))] :
        shapes \in [1..n -> ActualTurnShapes]}

\* The actual turns handed to finish: up to one turn more than were recorded.
ActualRuns == UNION {ActualTurnsOfLen(n) : n \in 0..(MaxRecordedTurns + 1)}

\* A fresh engine and the actual turns its finish will be handed.
InitFinish ==
    /\ StubConstructed(RecordedRuns)
    /\ \/ \E actual_turns \in ActualRuns :
             stub_last = [NoStubOp EXCEPT !.actual = Some(actual_turns)]
       \/ stub_last = [NoStubOp EXCEPT !.actual = Some(recorded)]
    /\ requests = Idle

\* engine.finish(actual_turns), called once
FinishCompared ==
    /\ stub_last.op = "none"
    /\ Finish(stub_last.actual)

NextFinish == FinishCompared

SpecFinish == InitFinish /\ [][NextFinish]_vars

(***************************************************************************)
(* The Recorder specification                                              *)
(***************************************************************************)
MaxTurns == 2        \* stored turns
MaxRejected == 1     \* add_turn calls that raise
MaxSessions == 2     \* recording() contexts entered

\* The seconds between two readings of time.monotonic().
ElapsedTimes == {0, 1}

\* Recorder(...) as called: with arguments of the declared types, and with
\* arguments of other types (the constructor stores them as given).
ConstructorCalls ==
    {[scenario |-> PyStr("refund-flow"), tags |-> PyList(<<PyStr("smoke")>>),
      description |-> PyStr(""), model_provider |-> PyStr("openai"),
      model_name |-> PyStr("gpt-4o"), temperature |-> PyFloat(1), seed |-> PyInt(3)],
     [scenario |-> PyInt(5), tags |-> PyNone,
      description |-> PyStr("d"), model_provider |-> PyStr(""),
      model_name |-> PyStr(""), temperature |-> PyStr("10.5"), seed |-> PyNone]}

AddTurnCall(role, content, tool_calls, latency_ms, prompt_tokens, completion_tokens) ==
    [role |-> role, content |-> content, tool_calls |-> tool_calls,
     latency_ms |-> latency_ms, prompt_tokens |-> prompt_tokens,
     completion_tokens |-> completion_tokens]

EntryLookup ==
    PyDict(<<Field("id", PyStr("tc1")), Field("function", LookupOrder),
             Field("arguments", Order123), Field("result", PyStr("r1")),
             Field("duration_ms", PyStr("10.5"))>>)
\* No function and an int id; the arguments are a list.
EntryMalformed ==
    PyDict(<<Field("id", PyInt(123)), Field("arguments", PyList(<<PyStr("bad")>>))>>)
\* Payloads JSON cannot hold: an int key, a date, a tuple.
EntryNonJson ==
    PyDict(<<Field("id", PyStr("tc2")), Field("function", ProcessRefund),
             Field("arguments", PyDict(<<PyItem(PyInt(1), PyDate("2024-01-01"))>>)),
             Field("result", PyTuple(<<PyInt(1), PyInt(2)>>))>>)

\* add_turn(...) as called with a role of the closed set and optional data that
\* is well-typed, malformed, or that JSON cannot hold.
AcceptedCalls ==
    {AddTurnCall(PyStr("user"), PyStr("refund ORD-123"), PyList(<<>>), PyStr("abc"),
                 PyNaN, PyNone),
     AddTurnCall(PyStr("assistant"), PyStr(""), PyList(<<EntryLookup>>), PyFloat(21),
                 PyInt(3), PyInt(2)),
     AddTurnCall(PyStr("assistant"), PyDict(<<Field("message", PyStr("done"))>>),
                 PyList(<<PyNone, EntryMalformed, EntryLookup>>), PyStr("10.5"),
                 PyStr("3"), PyFloat(5)),
     AddTurnCall(PyStr("tool"), PyNone, PyTuple(<<EntryNonJson>>), PyNone,
                 PyStr("abc"), PyInt(0))}

\* add_turn(...) as called with a role outside the closed set, and with a role
\* of the closed set and a token count of float("inf").
RaisingCalls ==
    {AddTurnCall(PyStr("admin"), PyStr("hi"), PyList(<<EntryLookup>>), PyNone,
                 PyInt(3), PyInt(2)),
     AddTurnCall(PyStr("assistant"), PyStr("hi"), PyList(<<EntryLookup>>), PyNone,
                 PyInf, PyInt(0))}

AddTurnCalls == AcceptedCalls \cup RaisingCalls

NoRecorderOp ==
    [op |-> "none", raises |-> "none", role |-> PyNone, given |-> PyNone,
     turns_before |-> <<>>, index_before |-> 0]

Init ==
    /\ run \in {NewRun(c.scenario, c.tags, c.description, c.model_provider,
                       c.model_name, c.temperature, c.seed) : c \in ConstructorCalls}
    /\ start_time = None
    /\ turn_index = 0
    /\ total_tool_calls = 0
    /\ total_prompt_tokens = 0
    /\ total_completion_tokens = 0
    /\ open_sessions = 0
    /\ rec_last = NoRecorderOp
    /\ rec_hist = [begun |-> 0, rejected |-> 0]
    /\ recorded = Idle /\ stub_tool_calls = Idle /\ stub_call_counts = Idle
    /\ stub_last = Idle /\ returned = Idle /\ exhausted = Idle /\ requests = Idle
    /\ doc = Idle /\ decoded = Idle
    /\ chk_run = Idle /\ chk_assertions = Idle /\ chk_policies = Idle /\ chk_out = Idle

\* The reading of time.monotonic() on entering recording(): later than every
\* earlier one.  Only differences of readings reach the Run, so the readings
\* are numbered.
MonotonicAtBegin == rec_hist.begun + 1

\* Entering "with recorder.recording():": the code before the yield.
Begin ==
    /\ rec_hist.begun < MaxSessions
    /\ start_time' = Some(MonotonicAtBegin)
    /\ rec_hist' = [rec_hist EXCEPT !.begun = @ + 1]
    /\ open_sessions' = open_sessions + 1
    /\ rec_last' = [NoRecorderOp EXCEPT !.op = "begin", !.turns_before = run.turns,
                                        !.index_before = turn_index]
    /\ UNCHANGED <<run, turn_index, total_tool_calls, total_prompt_tokens,
                   total_completion_tokens>>
    /\ UNCHANGED <<stubVars, decVars, chkVars>>

\* recorder.add_turn(...)
AddTurn ==
    \E c \in AddTurnCalls :
        LET o == AddTurnOutcome(c.role, c.content, c.tool_calls, c.latency_ms,
                                c.prompt_tokens, c.completion_tokens)
        IN /\ IF o.raises = "none" THEN Len(run.turns) < MaxTurns
              ELSE rec_hist.rejected < MaxRejected
           /\ run' = IF o.turn # None
                     THEN [run EXCEPT !.turns = Append(@, o.turn[1])] ELSE run
           /\ turn_index' = IndexAfter(turn_index, o.turn # None)
           /\ total_tool_calls' = o.tool_calls
           /\ total_prompt_tokens' = o.prompt
           /\ total_completion_tokens' = o.completion
           /\ rec_last' = [op |-> "add_turn", raises |-> o.raises, role |-> c.role,
                           given |-> c.tool_calls,
                           turns_before |-> run.turns, index_before |-> turn_index]
           /\ rec_hist' = [rec_hist EXCEPT
                              !.rejected = IF o.raises = "none" THEN @ ELSE @ + 1]
           /\ UNCHANGED <<start_time, open_sessions>>
           /\ UNCHANGED <<stubVars, decVars, chkVars>>

\* Leaving "with recorder.recording():": the finally clause.
End ==
    /\ open_sessions > 0
    /\ \E elapsed \in ElapsedTimes :
          run' = [run EXCEPT !.summary = FinalSummary(start_time[1] + elapsed)]
    /\ open_sessions' = open_sessions - 1
    /\ rec_last' = [NoRecorderOp EXCEPT !.op = "end", !.turns_before = run.turns,
                                        !.index_before = turn_index]
    /\ UNCHANGED <<start_time, turn_index, total_tool_calls, total_prompt_tokens,
                   total_completion_tokens, rec_hist>>
    /\ UNCHANGED <<stubVars, decVars, chkVars>>

Next == Begin \/ AddTurn \/ End

Spec == Init /\ [][Next]_vars

(***************************************************************************)
(* The ingestion specification: a Recorder fed by the OpenAI interceptor   *)
(* and by add_turn                                                         *)
(***************************************************************************)
\* The function of a raw tool call: its name and its arguments as JSON text.
RawFunction(name, arguments) ==
    PyDict(<<Field("name", name), Field("arguments", arguments)>>)

\* Raw tool calls: well-formed, with an empty name, without a name, without
\* a function, with a name that is no str, and one that is no mapping.
RawLookup ==
    PyDict(<<Field("id", PyStr("c1")),
             Field("function", RawFunction(LookupOrder, PyStr("{\"order_id\": \"123\"}")))>>)
RawEmptyName ==
    PyDict(<<Field("id", PyStr("c2")), Field("function", RawFunction(PyStr(""), PyStr("{}")))>>)
RawNoName ==
    PyDict(<<Field("id", PyStr("c3")),
             Field("function", PyDict(<<Field("arguments", PyStr("5"))>>))>>)
RawNoFunction == PyDict(<<Field("id", PyStr("bad")), Field("function", PyNone)>>)
RawNumberName ==
    PyDict(<<Field("function", RawFunction(PyInt(7), PyStr("oops")))>>)
RawZeroName ==
    PyDict(<<Field("id", PyInt(4)), Field("function", RawFunction(PyInt(0), PyNone))>>)

\* A chat completion with one choice.
OpenAIResponse(model, content, tool_calls, usage) ==
    PyDict(<<Field("model", model),
             Field("choices",
                   PyList(<<PyDict(<<Field("message",
                                          PyDict(<<Field("content", content),
                                                   Field("tool_calls", tool_calls)>>))>>)>>)),
             Field("usage", usage)>>)

\* The responses the patched client returns: with malformed tool calls only,
\* with tool calls of every kind, without choices, with a token count of
\* float("inf"), and with tool_calls that are no list.
OpenAIResponses ==
    {OpenAIResponse(PyNone, PyStr("Done"), PyList(<<RawNoFunction>>), PyNone),
     OpenAIResponse(PyStr("gpt-test"), PyNone,
                    PyList(<<RawEmptyName, RawLookup, PyStr("call"), RawNoName,
                             RawNumberName, RawZeroName>>),
                    PyDict(<<Field("prompt_tokens", PyInt(3)),
                             Field("completion_tokens", PyStr("2"))>>)),
     PyDict(<<Field("model", PyStr("gpt-stream-like")), Field("choices", PyList(<<>>))>>),
     OpenAIResponse(PyStr("gpt-test"), PyStr("hi"), PyList(<<RawLookup>>),
                    PyDict(<<Field("prompt_tokens", PyInf)>>)),
     OpenAIResponse(PyNone, PyStr("hi"), PyStr("calls"), PyNone)}

\* The latency the interceptor measures, in ms.
MeasuredLatency == PyFloat(42)

\* client.chat.completions.create(...) on a client patched by patch_openai:
\* _record_openai_response on the response.
RecordOpenAIResponse ==
    \E response \in OpenAIResponses :
        LET o == RecordOpenAIOutcome(response, MeasuredLatency)
        IN /\ IF o.raises # "none" THEN rec_hist.rejected < MaxRejected
              ELSE o.turn # None => Len(run.turns) < MaxTurns
           /\ run' = [run EXCEPT !.model = ModelAfter(response),
                                 !.turns = IF o.turn # None THEN Append(@, o.turn[1])
                                           ELSE @]
           /\ turn_index' = IndexAfter(turn_index, o.turn # None)
           /\ total_tool_calls' = o.tool_calls
           /\ total_prompt_tokens' = o.prompt
           /\ total_completion_tokens' = o.completion
           /\ rec_last' = [op |-> "record_openai_response", raises |-> o.raises,
                           role |-> PyStr("assistant"), given |-> response,
                           turns_before |-> run.turns, index_before |-> turn_index]
           /\ rec_hist' = [rec_hist EXCEPT
                              !.rejected = IF o.raises = "none" THEN @ ELSE @ + 1]
           /\ UNCHANGED <<start_time, open_sessions>>
           /\ UNCHANGED <<stubVars, decVars, chkVars>>

NextIngest == AddTurn \/ RecordOpenAIResponse

SpecIngest == Init /\ [][NextIngest]_vars

(***************************************************************************)
(* The decode specification: run_from_dict on a document                   *)
(***************************************************************************)
MaxDocTurns == 2     \* entries of a document's turns list

\* The entries a document's turns list holds: turns with a role of the closed
\* set, mappings with the role missing, null, empty, unknown or no str, one
\* with an index int() cannot convert, and entries that are no mappings.
DocTurnEntries ==
    {PyDict(<<Field("index", PyInt(0)), Field("role", PyStr("user")),
              Field("content", PyStr("hi"))>>),
     PyDict(<<Field("role", PyStr("assistant")),
              Field("tool_calls", PyList(<<EntryLookup, PyNone>>)),
              Field("tokens", PyDict(<<Field("prompt", PyStr("3"))>>))>>),
     PyDict(<<Field("index", PyInt(1)), Field("content", PyStr("no role"))>>),
     PyDict(<<Field("role", PyNone)>>),
     PyDict(<<Field("role", PyStr("")), Field("content", PyStr("hi"))>>),
     PyDict(<<Field("role", PyStr("admin"))>>),
     PyDict(<<Field("role", PyInt(0))>>),
     PyDict(<<Field("role", PyStr("tool")), Field("index", PyInf)>>),
     PyNone,
     PyStr("user")}

DocTurnLists ==
    UNION {[1..n -> DocTurnEntries] : n \in 0..MaxDocTurns}

\* The documents: with a turns list, with turns null, absent, and not a list.
Documents ==
    {PyDict(<<Field("schema_version", PyStr("1.0.0")), Field("turns", PyList(ts))>>) :
        ts \in DocTurnLists}
    \cup {PyDict(<<Field("turns", PyNone)>>), EmptyDict,
          PyDict(<<Field("turns", PyDict(<<Field("role", PyStr("admin"))>>))>>)}

\* An optional section of a document: given, null or absent.
SectionModes == {"given", "null", "absent"}
Section(key, mode, value) ==
    CASE mode = "given" -> <<Field(key, value)>>
      [] mode = "null" -> <<Field(key, PyNone)>>
      [] OTHER -> <<>>

\* A turn with its role and every optional section null.
DocTurnAllNull ==
    PyDict(<<Field("role", PyStr("assistant")), Field("index", PyNone),
             Field("content", PyNone), Field("tool_calls", PyNone),
             Field("timing", PyNone), Field("tokens", PyNone)>>)

\* The documents with each of source, model, metadata, summary, turns,
\* metadata.tags and summary.total_tokens given, null or absent.
TopSectionDocuments ==
    {PyDict(Section("source", m[1], PyDict(<<Field("recorded_at", PyStr("2024-01-01")),
                                              Field("sdk", PyStr("other-sdk"))>>))
            \o Section("model", m[2], PyDict(<<Field("provider", PyStr("openai")),
                                               Field("max_tokens", PyStr("10"))>>))
            \o Section("metadata", m[3],
                       PyDict(<<Field("scenario", PyStr("null-sections"))>>
                              \o Section("tags", m[4], PyList(<<PyStr("smoke")>>))))
            \o Section("summary", m[5],
                       PyDict(<<Field("total_turns", PyInt(1))>>
                              \o Section("total_tokens", m[6],
                                         PyDict(<<Field("prompt", PyInt(3)),
                                                  Field("total", PyInt(3))>>))))
            \o Section("turns", m[7], PyList(<<DocTurnAllNull>>))) :
        m \in [1..7 -> SectionModes]}

\* The documents of one turn with each of its index, content, tool_calls,
\* timing and tokens given, null or absent.
TurnSectionDocuments ==
    {PyDict(<<Field("turns", PyList(<<
        PyDict(<<Field("role", PyStr("assistant"))>>
               \o Section("index", m[1], PyInt(4))
               \o Section("content", m[2], PyStr("done"))
               \o Section("tool_calls", m[3], PyList(<<EntryLookup>>))
               \o Section("timing", m[4], PyDict(<<Field("latency_ms", PyStr("10.5"))>>))
               \o Section("tokens", m[5], PyDict(<<Field("prompt", PyInt(3))>>)))>>))>>) :
        m \in [1..5 -> SectionModes]}

NoDecode == [op |-> "none", raises |-> "none", run |-> PyNone]

InitDecode ==
    /\ \/ doc \in Documents
       \/ doc \in TopSectionDocuments
       \/ doc \in TurnSectionDocuments
    /\ decoded = NoDecode
    /\ run = Idle /\ start_time = Idle /\ turn_index = Idle
    /\ total_tool_calls = Idle /\ total_prompt_tokens = Idle
    /\ total_completion_tokens = Idle /\ open_sessions = Idle
    /\ rec_last = Idle /\ rec_hist = Idle
    /\ recorded = Idle /\ stub_tool_calls = Idle /\ stub_call_counts = Idle
    /\ stub_last = Idle /\ returned = Idle /\ exhausted = Idle /\ requests = Idle
    /\ chk_run = Idle /\ chk_assertions = Idle /\ chk_policies = Idle /\ chk_out = Idle

\* run_from_dict(doc)
Decode ==
    /\ decoded.op = "none"
    /\ LET r == RunFromDict(doc)
       IN decoded' = [op |-> "run_from_dict", raises |-> r.raises, run |-> r.value]
    /\ UNCHANGED <<doc, recVars, stubVars, chkVars>>

NextDecode == Decode

SpecDecode == InitDecode /\ [][NextDecode]_vars

(***************************************************************************)
(* config.py: AssertionSpec, PolicySpec; assertions/engine.py              *)
(***************************************************************************)
\* AssertionSpec: the fields the engine reads (type, target, value, schema).
AssertionSpec(type, target, value, schema) ==
    [type |-> type, target |-> target, value |-> value, schema |-> schema]

\* PolicySpec: the fields the engine reads (name, type, tools).
PolicySpec(name, type, tools) == [name |-> name, type |-> type, tools |-> tools]

AssertionResult(assertion, passed, message) ==
    [assertion |-> assertion, passed |-> passed, message |-> message]

IsNumber(v) == v.k \in {"int", "float"}

\* a == b on Python values: numbers by value (nan equals nothing), dicts
\* whatever the order of their items, sequences element by element.
RECURSIVE PyEq(_, _)
PyEq(a, b) ==
    CASE IsNumber(a) /\ IsNumber(b) ->
            IF a.s \in {"", "fin"} /\ b.s \in {"", "fin"}
            THEN (IF a.k = "int" THEN 2 * a.n ELSE a.n) = (IF b.k = "int" THEN 2 * b.n ELSE b.n)
            ELSE a = b /\ a.s # "nan"
      [] a.k = "dict" /\ b.k = "dict" ->
            /\ Len(a.xs) = Len(b.xs)
            /\ \A i \in 1..Len(a.xs) : \E j \in 1..Len(b.xs) :
                  PyEq(a.xs[i].xs[1], b.xs[j].xs[1]) /\ PyEq(a.xs[i].xs[2], b.xs[j].xs[2])
      [] a.k \in {"list", "tuple"} /\ a.k = b.k ->
            /\ Len(a.xs) = Len(b.xs)
            /\ \A i \in 1..Len(a.xs) : PyEq(a.xs[i], b.xs[i])
      [] OTHER -> a = b

\* dict.get(key) with a key that is any value.
PyGetKey(d, key) ==
    IF \E i \in 1..Len(d.xs) : PyEq(d.xs[i].xs[1], key)
    THEN d.xs[CHOOSE i \in 1..Len(d.xs) : PyEq(d.xs[i].xs[1], key)].xs[2]
    ELSE PyNone

\* x in container
PyIn(x, container) ==
    CASE container.k \in {"list", "tuple", "set", "frozenset"} ->
            Returns(\E i \in 1..Len(container.xs) : PyEq(container.xs[i], x))
      [] container.k = "dict" ->
            Returns(\E i \in 1..Len(container.xs) : PyEq(container.xs[i].xs[1], x))
      [] container.k = "str" /\ IsStr(x) -> Returns(Contains(container.s, x.s))
      [] OTHER -> Raises("TypeError")

\* The text an f-string writes for a value: a str as it is, None, an int; the
\* text of any other value is stood for by its type in angle brackets.
StrText(v) ==
    IF IsStr(v) /\ v.xs = <<>> THEN v.s
    ELSE IF IsNone(v) THEN "None"
    ELSE IF v.k = "int" /\ v.s = "" THEN ToString(v.n)
    ELSE "<" \o v.k \o ">"

\* The scan of reversed(run.turns) taking the last assistant turn whose
\* content is truthy.
RECURSIVE FinalResponseTruthy(_)
FinalResponseTruthy(turns) ==
    IF turns = <<>> THEN PyNone
    ELSE LET turn == turns[Len(turns)]
         IN IF turn.role = "assistant" /\ ~IsNone(turn.content) /\ turn.content # PyStr("")
            THEN turn.content
            ELSE FinalResponseTruthy(SubSeq(turns, 1, Len(turns) - 1))

\* _resolve_target, final_response: the scan of reversed(run.turns).
RECURSIVE FinalResponse(_)
FinalResponse(turns) ==
    IF turns = <<>> THEN PyNone
    ELSE LET turn == turns[Len(turns)]
         IN IF turn.role = "assistant" /\ ~IsNone(turn.content) THEN turn.content
            ELSE FinalResponse(SubSeq(turns, 1, Len(turns) - 1))

\* _resolve_target, full_conversation: the parts, then "\n".join(parts).
RECURSIVE ConversationParts(_)
ConversationParts(turns) ==
    IF turns = <<>> THEN <<>>
    ELSE (IF ~IsNone(Head(turns).content)
          THEN <<Head(turns).role \o ": " \o StrText(Head(turns).content)>> ELSE <<>>)
         \o ConversationParts(Tail(turns))

RECURSIVE Join(_, _)
Join(parts, sep) ==
    IF parts = <<>> THEN ""
    ELSE IF Len(parts) = 1 THEN parts[1]
    ELSE parts[1] \o sep \o Join(Tail(parts), sep)

\* _get_all_tool_calls
RECURSIVE GetAllToolCalls(_)
GetAllToolCalls(turns) ==
    IF turns = <<>> THEN <<>>
    ELSE Head(turns).tool_calls \o GetAllToolCalls(Tail(turns))

\* _resolve_target, tool_call: the loops return at the first call to func_name
\* when field_name is arguments or result, and fall through otherwise.
ToolCallField(turns, func_name, field_name) ==
    LET calls == SelectSeq(GetAllToolCalls(turns), LAMBDA tc : PyEq(tc.function, PyStr(func_name)))
    IN IF calls = <<>> THEN PyNone
       ELSE IF field_name = "arguments" THEN calls[1].arguments
       ELSE IF field_name = "result" THEN calls[1].result
       ELSE PyNone

\* A resolution in which turn:N names the turn whose index field is N.
ResolveTargetByIndex(r, target) ==
    IF target = "final_response" THEN Returns(FinalResponse(r.turns))
    ELSE IF target = "full_conversation"
    THEN Returns(PyStr(Join(ConversationParts(r.turns), "\n")))
    ELSE IF StartsWith(target, "turn:")
    THEN LET raw_idx == Split(target, ":", 1)[2]
             idx == PyIntOf(PyStr(raw_idx))
             found == SelectSeq(r.turns, LAMBDA t : idx.raises = "none" /\ t.index = idx.value.n)
         IN IF idx.raises # "none" THEN Raises(idx.raises)
            ELSE IF found # <<>> THEN Returns(found[1].content)
            ELSE Returns(PyNone)
    ELSE IF StartsWith(target, "tool_call:")
    THEN LET parts == Split(target, ":", 2)
             field_name == IF Len(parts) > 2 THEN parts[3] ELSE "arguments"
         IN IF Len(parts) < 2 \/ parts[2] = "" THEN Returns(PyNone)
            ELSE Returns(ToolCallField(r.turns, parts[2], field_name))
    ELSE Returns(PyNone)

\* _resolve_target
ResolveTarget(r, target) ==
    IF target = "final_response" THEN Returns(FinalResponse(r.turns))
    ELSE IF target = "full_conversation"
    THEN Returns(PyStr(Join(ConversationParts(r.turns), "\n")))
    ELSE IF StartsWith(target, "turn:")
    THEN LET raw_idx == Split(target, ":", 1)[2]
             idx == PyIntOf(PyStr(raw_idx))
         IN IF idx.raises # "none" THEN Raises(idx.raises)
            ELSE IF 0 <= idx.value.n /\ idx.value.n < Len(r.turns)
            THEN Returns(r.turns[idx.value.n + 1].content)
            ELSE Returns(PyNone)
    ELSE IF StartsWith(target, "tool_call:")
    THEN LET parts == Split(target, ":", 2)
             field_name == IF Len(parts) > 2 THEN parts[3] ELSE "arguments"
         IN IF Len(parts) < 2 \/ parts[2] = "" THEN Returns(PyNone)
            ELSE Returns(ToolCallField(r.turns, parts[2], field_name))
    ELSE Returns(PyNone)

\* The function a tool target names: "tool:" is taken out of a target that
\* starts with it.
FuncName(target) ==
    IF StartsWith(target, "tool:") THEN Replace(target, "tool:") ELSE target

\* _check_exact
CheckExact(r, spec) ==
    IF IsNone(spec.value)
    THEN Returns(AssertionResult(spec, FALSE, "'exact' requires a non-null 'value'"))
    ELSE LET actual == ResolveTarget(r, spec.target)
         IN IF actual.raises # "none" THEN Raises(actual.raises)
            ELSE IF PyEq(actual.value, spec.value)
            THEN Returns(AssertionResult(spec, TRUE, ""))
            ELSE Returns(AssertionResult(spec, FALSE,
                    "Expected exact '" \o StrText(spec.value) \o "', got '"
                    \o StrText(actual.value) \o "'"))

\* _check_contains
CheckContains(r, spec) ==
    LET actual == ResolveTarget(r, spec.target)
    IN IF actual.raises # "none" THEN Raises(actual.raises)
       ELSE IF IsNone(actual.value) \/ IsNone(spec.value)
       THEN Returns(AssertionResult(spec, FALSE,
                "Target '" \o spec.target \o "' resolved to None"))
       ELSE IF ~IsStr(spec.value) THEN Raises("TypeError")
       ELSE IF Contains(StrText(actual.value), spec.value.s)
       THEN Returns(AssertionResult(spec, TRUE, ""))
       ELSE Returns(AssertionResult(spec, FALSE,
                "'" \o spec.value.s \o "' not found in target"))

\* re.search(pattern, text) for the patterns drawn here: a pattern of plain
\* characters is found where it occurs, and "(" does not compile.
ReSearch(pattern, text) ==
    IF pattern = "(" THEN Raises("error") ELSE Returns(Contains(text, pattern))

\* _check_regex
CheckRegex(r, spec) ==
    LET actual == ResolveTarget(r, spec.target)
        found == ReSearch(spec.value.s, StrText(actual.value))
    IN IF actual.raises # "none" THEN Raises(actual.raises)
       ELSE IF IsNone(actual.value) \/ IsNone(spec.value)
       THEN Returns(AssertionResult(spec, FALSE, "Target or pattern is None"))
       ELSE IF ~IsStr(spec.value) THEN Raises("TypeError")
       ELSE IF found.raises # "none" THEN Raises(found.raises)
       ELSE IF found.value THEN Returns(AssertionResult(spec, TRUE, ""))
       ELSE Returns(AssertionResult(spec, FALSE,
                "Pattern '" \o spec.value.s \o "' not matched"))

\* jsonschema.validate(instance, schema) for the schemas drawn here: {} takes
\* any instance, {"type": "object"} a dict, {"type": "string"} a str, and a
\* type that is no type name is no schema.
JsonSchemaValidate(instance, schema) ==
    LET type == PyGet(schema, "type")
    IN CASE IsNone(type) -> Returns(TRUE)
         [] type = PyStr("object") -> Returns(IsDict(instance))
         [] type = PyStr("string") -> Returns(IsStr(instance))
         [] OTHER -> Raises("SchemaError")

\* _check_json_schema
CheckJsonSchema(r, spec) ==
    LET actual == ResolveTarget(r, spec.target)
        valid == JsonSchemaValidate(actual.value, spec.schema)
    IN IF actual.raises # "none" THEN Raises(actual.raises)
       ELSE IF IsNone(actual.value) \/ IsNone(spec.schema)
       THEN Returns(AssertionResult(spec, FALSE, "Target or schema is None"))
       ELSE IF valid.raises # "none" THEN Raises(valid.raises)
       ELSE IF valid.value THEN Returns(AssertionResult(spec, TRUE, ""))
       ELSE Returns(AssertionResult(spec, FALSE, "Schema validation failed: ValidationError"))

\* _check_not_called
CheckNotCalled(r, spec) ==
    LET func_name == FuncName(spec.target)
        calls == GetAllToolCalls(r.turns)
        called == \E i \in 1..Len(calls) : PyEq(calls[i].function, PyStr(func_name))
    IN Returns(AssertionResult(spec, ~called,
          IF ~called THEN ""
          ELSE "Tool '" \o func_name \o "' was called but should not have been"))

\* _check_called_with
CheckCalledWith(r, spec) ==
    LET func_name == FuncName(spec.target)
        expected_args == spec.schema
        calls == GetAllToolCalls(r.turns)
        match(args) == \A k \in 1..Len(expected_args.xs) :
                          PyEq(PyGetKey(args, expected_args.xs[k].xs[1]),
                               expected_args.xs[k].xs[2])
    IN IF IsNone(spec.schema)
       THEN Returns(AssertionResult(spec, FALSE,
                "'called_with' requires expected arguments in 'schema'"))
       ELSE IF ~IsDict(spec.schema)
       THEN Returns(AssertionResult(spec, FALSE, "'called_with' expects a dict in 'schema'"))
       ELSE IF \E i \in 1..Len(calls) :
                  /\ PyEq(calls[i].function, PyStr(func_name))
                  /\ IsDict(calls[i].arguments)
                  /\ match(calls[i].arguments)
       THEN Returns(AssertionResult(spec, TRUE, ""))
       ELSE Returns(AssertionResult(spec, FALSE,
                "Tool '" \o func_name \o "' was not called with expected arguments"))

\* _check_called_count
CheckCalledCount(r, spec) ==
    LET func_name == FuncName(spec.target)
        expected_count == PyIntOf(spec.value)
        calls == GetAllToolCalls(r.turns)
        actual_count == Len(SelectSeq(calls,
                            LAMBDA tc : PyEq(tc.function, PyStr(func_name))))
    IN IF IsNone(spec.value)
       THEN Returns(AssertionResult(spec, FALSE,
                "'called_count' requires an integer 'value'"))
       ELSE IF expected_count.raises \in {"TypeError", "ValueError"}
       THEN Returns(AssertionResult(spec, FALSE,
                "'called_count' expects an integer 'value'"))
       ELSE IF expected_count.raises # "none" THEN Raises(expected_count.raises)
       ELSE IF expected_count.value.s = "" /\ actual_count = expected_count.value.n
       THEN Returns(AssertionResult(spec, TRUE, ""))
       ELSE Returns(AssertionResult(spec, FALSE,
                "Tool '" \o func_name \o "' called " \o ToString(actual_count)
                \o " times, expected " \o StrText(expected_count.value)))

\* The keys of the checkers dict of _check_assertion.
AssertionTypes ==
    {"exact", "contains", "regex", "json_schema", "not_called", "called_with",
     "called_count"}

\* checker(run, spec)
Checker(r, spec) ==
    CASE spec.type = "exact" -> CheckExact(r, spec)
      [] spec.type = "contains" -> CheckContains(r, spec)
      [] spec.type = "regex" -> CheckRegex(r, spec)
      [] spec.type = "json_schema" -> CheckJsonSchema(r, spec)
      [] spec.type = "not_called" -> CheckNotCalled(r, spec)
      [] spec.type = "called_with" -> CheckCalledWith(r, spec)
      [] spec.type = "called_count" -> CheckCalledCount(r, spec)

\* try: return checker(...) / except Exception as e: return a failing
\* AssertionResult whose message is the prefix and the exception.
CaughtAs(checked, spec, prefix) ==
    IF checked.raises # "none"
    THEN Returns(AssertionResult(spec, FALSE, prefix \o checked.raises))
    ELSE checked

\* Mutant of CheckAssertion: an exception of the checker is not caught.
CheckAssertionUncaught(r, spec) ==
    IF spec.type \notin AssertionTypes
    THEN Returns(AssertionResult(spec, FALSE, "Unknown assertion type: " \o spec.type))
    ELSE Checker(r, spec)

\* _check_assertion; the text of the exception e is stood for by its type.
CheckAssertion(r, spec) ==
    IF spec.type \notin AssertionTypes
    THEN Returns(AssertionResult(spec, FALSE, "Unknown assertion type: " \o spec.type))
    ELSE CaughtAs(Checker(r, spec), spec, "Assertion error: ")

\* repr of a list of names, as the f-string of _policy_tool_allowlist writes it.
ListRepr(names) ==
    "[" \o Join([i \in 1..Len(names) |-> "'" \o StrText(names[i]) \o "'"], ", ") \o "]"

\* The list comprehension of _policy_tool_allowlist: the names not in tools,
\* or the exception of the first "not in".
RECURSIVE Violations(_, _)
Violations(calls, tools) ==
    IF calls = <<>> THEN Returns(<<>>)
    ELSE LET allowed == PyIn(Head(calls).function, tools)
             rest == Violations(Tail(calls), tools)
         IN IF allowed.raises # "none" THEN Raises(allowed.raises)
            ELSE IF rest.raises # "none" THEN rest
            ELSE Returns((IF allowed.value THEN <<>> ELSE <<Head(calls).function>>)
                         \o rest.value)

\* _policy_tool_allowlist
PolicyToolAllowlist(r, policy) ==
    LET violations == Violations(GetAllToolCalls(r.turns), policy.tools)
        spec == AssertionSpec("policy:" \o policy.name, "all_tool_calls", PyNone, PyNone)
    IN IF violations.raises # "none" THEN Raises(violations.raises)
       ELSE IF violations.value # <<>>
       THEN Returns(AssertionResult(spec, FALSE,
                "Disallowed tools called: " \o ListRepr(violations.value)))
       ELSE Returns(AssertionResult(spec, TRUE, ""))

\* The inner loop of _policy_requires_confirmation over the tool calls of the
\* turn at position i (zero-based): what it returns, if it does, which is the
\* failing result of the first protected call when the turn is the first or
\* follows a turn that is not the user's.
RECURSIVE ConfirmationCalls(_, _, _, _, _)
ConfirmationCalls(turns, i, calls, tools, spec) ==
    IF calls = <<>> THEN Returns(<<>>)
    ELSE LET protected == PyIn(Head(calls).function, tools)
         IN IF protected.raises # "none" THEN Raises(protected.raises)
            ELSE IF protected.value /\ i = 0
            THEN Returns(<<AssertionResult(spec, FALSE,
                    "Tool '" \o StrText(Head(calls).function)
                    \o "' called at turn 0 with no prior confirmation")>>)
            ELSE IF protected.value /\ turns[i].role # "user"
            THEN Returns(<<AssertionResult(spec, FALSE,
                    "Tool '" \o StrText(Head(calls).function) \o "' at turn "
                    \o ToString(i) \o " not preceded by user confirmation")>>)
            ELSE ConfirmationCalls(turns, i, Tail(calls), tools, spec)

\* The outer loop of _policy_requires_confirmation from position i on.
RECURSIVE ConfirmationTurns(_, _, _, _)
ConfirmationTurns(turns, i, tools, spec) ==
    IF i >= Len(turns) THEN Returns(AssertionResult(spec, TRUE, ""))
    ELSE LET inner == ConfirmationCalls(turns, i, turns[i + 1].tool_calls, tools, spec)
         IN IF inner.raises # "none" THEN inner
            ELSE IF inner.value = <<>> THEN ConfirmationTurns(turns, i + 1, tools, spec)
            ELSE Returns(inner.value[1])

\* Mutant of PolicyRequiresConfirmation: only a protected call in the first
\* turn fails the policy.
PolicyRequiresConfirmationFirstTurnOnly(r, policy) ==
    LET spec == AssertionSpec("policy:" \o policy.name, "tool_sequence", PyNone, PyNone)
    IN ConfirmationTurns(IF r.turns = <<>> THEN <<>> ELSE <<r.turns[1]>>,
                         0, policy.tools, spec)

\* _policy_requires_confirmation
PolicyRequiresConfirmation(r, policy) ==
    LET spec == AssertionSpec("policy:" \o policy.name, "tool_sequence", PyNone, PyNone)
    IN ConfirmationTurns(r.turns, 0, policy.tools, spec)

\* The keys of the policy_checkers dict of _check_policy.
PolicyTypes == {"tool_allowlist", "requires_confirmation"}

\* policy_checkers[policy.type] applied to the run and the policy.
PolicyChecker(r, policy) ==
    CASE policy.type = "tool_allowlist" -> PolicyToolAllowlist(r, policy)
      [] policy.type = "requires_confirmation" -> PolicyRequiresConfirmation(r, policy)

\* _check_policy; the text of the exception e is stood for by its type.
CheckPolicy(r, policy) ==
    IF policy.type \notin PolicyTypes
    THEN Returns(AssertionResult(AssertionSpec("policy:" \o policy.name, "", PyNone, PyNone),
                                 FALSE, "Unknown policy type: " \o policy.type))
    ELSE CaughtAs(PolicyChecker(r, policy),
                  AssertionSpec("policy:" \o policy.name, "", PyNone, PyNone),
                  "Policy error: ")

\* The ContractResult check returns, or the exception that left a loop.
ContractResultOf(scenario, outcomes, raised) ==
    IF raised # "none" THEN [raises |-> raised, scenario |-> PyNone, results |-> <<>>]
    ELSE [raises |-> "none", scenario |-> scenario,
          results |-> [i \in 1..Len(outcomes) |-> outcomes[i].value]]

\* The results list of check as its two loops extend it.
CheckLoops(outcomes, scenario) == ContractResultOf(scenario, outcomes, FirstRaised(outcomes))

\* AssertionEngine.check: the exception that leaves it, or the ContractResult.
CheckOutcome(r, assertions, policies) ==
    CheckLoops([i \in 1..Len(assertions) |-> CheckAssertion(r, assertions[i])]
               \o [i \in 1..Len(policies) |-> CheckPolicy(r, policies[i])],
               r.metadata.scenario)

(***************************************************************************)
(* The assertion engine specification                                      *)
(***************************************************************************)
MaxCheckTurns == 3   \* turns of the Run that is checked
MaxChecks == 2       \* assertions, and policies, of one check

\* A stored call whose arguments are no mapping (a ToolCall built directly).
CheckCallRaw == ToolCall(PyStr("tc4"), LookupOrder, PyStr("order_id=123"), PyStr("r4"), PyNone)

\* The turns a checked Run is made of: role, content and tool calls.
CheckTurnShapes ==
    {[role |-> "user", content |-> PyStr("yes"), tool_calls |-> <<>>],
     [role |-> "assistant", content |-> PyStr("refund ORD-123 done"),
      tool_calls |-> <<RecordedCallC>>],
     [role |-> "assistant", content |-> PyNone,
      tool_calls |-> <<RecordedCallA, RecordedCallC>>],
     [role |-> "assistant", content |-> PyStr(""), tool_calls |-> <<RecordedCallB>>],
     [role |-> "tool", content |-> PyStr("r1"), tool_calls |-> <<>>],
     [role |-> "assistant", content |-> PyStr("raw"), tool_calls |-> <<CheckCallRaw>>]}

CheckTurnsOfLen(n) ==
    {[i \in 1..n |-> Turn(i - 1, ts[i].role, ts[i].content, ts[i].tool_calls, None, None)] :
        ts \in [1..n -> CheckTurnShapes]}

CheckedRun ==
    NewRun(PyStr("refund-flow"), PyNone, PyStr(""), PyStr(""), PyStr(""), PyFloat(0), PyNone)

CheckRunOf(turns) == [CheckedRun EXCEPT !.turns = turns]

CheckRuns == {CheckRunOf(ts) : ts \in UNION {CheckTurnsOfLen(n) : n \in 0..MaxCheckTurns}}

\* The Runs checked with lists of several checks.
ListCheckRuns ==
    {CheckRunOf(<<>>),
     CheckRunOf(<<Turn(0, "assistant", PyStr("refund ORD-123 done"), <<RecordedCallC>>,
                       None, None),
                  Turn(1, "user", PyStr("yes"), <<>>, None, None)>>)}

\* Assertions: of no known type, with a target or a value the checker cannot
\* evaluate, and well-formed ones of every type.
AssertionSpecs ==
    {AssertionSpec("bogus", "final_response", PyStr("x"), PyNone),
     AssertionSpec("exact", "turn:x", PyStr("yes"), PyNone),
     AssertionSpec("exact", "turn:1", PyStr("yes"), PyNone),
     AssertionSpec("exact", "final_response", PyStr(""), PyNone),
     AssertionSpec("exact", "tool_call:lookup_order:result", PyNone, PyNone),
     AssertionSpec("contains", "full_conversation", PyStr("ORD-123"), PyNone),
     AssertionSpec("contains", "final_response", PyInt(5), PyNone),
     AssertionSpec("regex", "final_response", PyStr("("), PyNone),
     AssertionSpec("json_schema", "tool_call:lookup_order",
                   PyNone, PyDict(<<Field("type", PyInt(5))>>)),
     AssertionSpec("not_called", "tool:process_refund", PyNone, PyNone),
     AssertionSpec("called_with", "lookup_order", PyNone, Order123),
     AssertionSpec("called_with", "tool:lookup_order", PyNone, EmptyDict),
     AssertionSpec("called_with", "tool:lookup_order", PyNone,
                   PyDict(<<Field("reason", PyNone)>>)),
     AssertionSpec("called_count", "tool:lookup_order", PyStr("1"), PyNone),
     AssertionSpec("called_count", "lookup_order", PyInf, PyNone)}

\* Policies: of no known type, with tools that is no collection, and
\* well-formed ones of both types.
PolicySpecs ==
    {PolicySpec("mystery", "bogus", PyList(<<>>)),
     PolicySpec("allow", "tool_allowlist", PyList(<<LookupOrder>>)),
     PolicySpec("allow-none", "tool_allowlist", PyNone),
     PolicySpec("confirm", "requires_confirmation", PyList(<<ProcessRefund>>)),
     PolicySpec("confirm-all", "requires_confirmation",
                PyList(<<ProcessRefund, LookupOrder>>)),
     PolicySpec("confirm-none", "requires_confirmation", PyNone)}

\* The checks that lists of several are made of.
ListAssertionSpecs ==
    {AssertionSpec("bogus", "final_response", PyStr("x"), PyNone),
     AssertionSpec("exact", "turn:x", PyStr("yes"), PyNone),
     AssertionSpec("regex", "final_response", PyStr("("), PyNone),
     AssertionSpec("not_called", "tool:process_refund", PyNone, PyNone)}

ListPolicySpecs ==
    {PolicySpec("mystery", "bogus", PyList(<<>>)),
     PolicySpec("allow-none", "tool_allowlist", PyNone),
     PolicySpec("confirm", "requires_confirmation", PyList(<<ProcessRefund>>))}

ListsUpTo(S, n) == UNION {[1..k -> S] : k \in 0..n}

\* check(run, assertions, policies) as called: one assertion on every Run,
SingleAssertionCalls ==
    {[run |-> r, assertions |-> <<a>>, policies |-> <<>>] :
        r \in CheckRuns, a \in AssertionSpecs}

\* one policy on every Run,
SinglePolicyCalls ==
    {[run |-> r, assertions |-> <<>>, policies |-> <<p>>] :
        r \in CheckRuns, p \in PolicySpecs}

\* and lists of up to MaxChecks assertions and policies on a few Runs.
ListCalls ==
    {[run |-> r, assertions |-> as, policies |-> ps] :
        r \in ListCheckRuns, as \in ListsUpTo(ListAssertionSpecs, MaxChecks),
        ps \in ListsUpTo(ListPolicySpecs, MaxChecks)}

NoCheck == [op |-> "none", raises |-> "none", scenario |-> PyNone, results |-> <<>>]

\* The arguments of the call of check.
CheckCalled(c) ==
    chk_run = c.run /\ chk_assertions = c.assertions /\ chk_policies = c.policies

InitCheck ==
    /\ \/ \E c \in SingleAssertionCalls : CheckCalled(c)
       \/ \E c \in SinglePolicyCalls : CheckCalled(c)
       \/ \E c \in ListCalls : CheckCalled(c)
    /\ chk_out = NoCheck
    /\ run = Idle /\ start_time = Idle /\ turn_index = Idle
    /\ total_tool_calls = Idle /\ total_prompt_tokens = Idle
    /\ total_completion_tokens = Idle /\ open_sessions = Idle
    /\ rec_last = Idle /\ rec_hist = Idle
    /\ recorded = Idle /\ stub_tool_calls = Idle /\ stub_call_counts = Idle
    /\ stub_last = Idle /\ returned = Idle /\ exhausted = Idle /\ requests = Idle
    /\ doc = Idle /\ decoded = Idle

\* A check whose final_response scan reverses run.turns in place.
CheckReversingInPlace ==
    /\ chk_out.op = "none"
    /\ LET o == CheckOutcome(chk_run, chk_assertions, chk_policies)
       IN chk_out' = [op |-> "check", raises |-> o.raises, scenario |-> o.scenario,
                      results |-> o.results]
    /\ chk_run' =
          IF \E i \in 1..Len(chk_assertions) : chk_assertions[i].target = "final_response"
          THEN [chk_run EXCEPT !.turns = [k \in 1..Len(@) |-> @[Len(@) + 1 - k]]]
          ELSE chk_run
    /\ UNCHANGED <<chk_assertions, chk_policies>>
    /\ UNCHANGED <<recVars, stubVars, decVars>>

\* engine.check(run, assertions, policies)
Check ==
    /\ chk_out.op = "none"
    /\ LET o == CheckOutcome(chk_run, chk_assertions, chk_policies)
       IN chk_out' = [op |-> "check", raises |-> o.raises, scenario |-> o.scenario,
                      results |-> o.results]
    /\ UNCHANGED <<chk_run, chk_assertions, chk_policies>>
    /\ UNCHANGED <<recVars, stubVars, decVars>>

NextCheck == Check

SpecCheck == InitCheck /\ [][NextCheck]_vars

(***************************************************************************)
(* Claims about the ToolStub (checked under SpecReplay)                    *)
(***************************************************************************)
\* The recorded calls in trajectory order: by turn, then by place in the turn.
RECURSIVE CallsInOrder(_)
CallsInOrder(turns) ==
    IF turns = <<>> THEN <<>> ELSE Head(turns).tool_calls \o CallsInOrder(Tail(turns))

\* The recorded calls to function f, in trajectory order.
RecordedCallsTo(f) == SelectSeq(CallsInOrder(recorded), LAMBDA tc : tc.function = f)

\* The number of get_result(f) calls that had succeeded before the last operation.
SucceededBefore(f) ==
    Len(returned[f]) -
        (IF stub_last.op = "get_result" /\ stub_last.function = f
            /\ stub_last.outcome = "ok" THEN 1 ELSE 0)

\* The consumed count the stub holds for f.
Consumed(counts, f) == DictGet(counts, f, 0)

\* C1: for every function f the i-th successful get_result(f) returned the result
\* of the i-th recorded call to f (turn order, then order within the turn),
\* whatever get_result calls on other functions and whatever failed calls came
\* in between.
C1_FifoStubbing ==
    \A f \in StubFunctions :
        /\ Len(returned[f]) <= Len(RecordedCallsTo(f))
        /\ \A i \in 1..Len(returned[f]) : returned[f][i] = RecordedCallsTo(f)[i].result

\* Two calls to one function recorded in different turns were both served, in
\* order, with a failed call and another function's call in between.
C1_Witness ==
    /\ Len(recorded) = 2
    /\ recorded[1].tool_calls = <<RecordedCallC, RecordedCallA>>
    /\ recorded[2].tool_calls = <<RecordedCallB>>
    /\ returned[LookupOrder] = <<PyStr("r1"), PyStr("r2")>>
    /\ returned[ProcessRefund] = <<PyStr("r3")>>
    /\ exhausted # {}

\* C2: get_result(f, args) with args supplied, the queue of f not empty and args
\* different from the head entry's arguments fails ArgumentsMismatch and leaves
\* every function's consumed count as it was; a get_result(f) that follows with
\* the head entry's arguments returns that head entry's result.
C2_MismatchConsumesNothing ==
    LET f == stub_last.function
        head == RecordedCallsTo(f)[SucceededBefore(f) + 1]
    IN stub_last.op = "get_result" /\ SucceededBefore(f) < Len(RecordedCallsTo(f)) =>
          /\ (~IsNone(stub_last.arguments) /\ stub_last.arguments # head.arguments =>
                /\ stub_last.outcome = "ToolStubArgumentsMismatch"
                /\ \A g \in StubFunctions :
                      Consumed(stub_call_counts, g) = Consumed(stub_last.before, g))
          /\ (stub_last.after_mismatch = f /\ stub_last.arguments = head.arguments =>
                /\ stub_last.outcome = "ok"
                /\ stub_last.result = head.result)

\* A mismatched probe was followed by a call with the head's arguments, on a
\* queue that had already been advanced once.
C2_Witness ==
    /\ stub_last.op = "get_result"
    /\ stub_last.after_mismatch = stub_last.function
    /\ stub_last.outcome = "ok"
    /\ ~IsNone(stub_last.arguments)
    /\ Len(returned[stub_last.function]) = 2

\* C3: get_result(f) fails Exhausted, which is not ArgumentsMismatch, exactly when
\* as many get_result(f) calls have succeeded as calls to f were recorded, a
\* function never recorded and any arguments included; the failure changes
\* nothing in the stub, and every later get_result(f) fails Exhausted too.
C3_ExhaustedExactly ==
    LET f == stub_last.function
    IN stub_last.op = "get_result" =>
          /\ stub_last.outcome = "ToolStubExhausted"
                <=> SucceededBefore(f) = Len(RecordedCallsTo(f))
          /\ stub_last.outcome = "ToolStubExhausted" =>
                /\ stub_call_counts = stub_last.before
                /\ stub_tool_calls = ToolStubInit(recorded)
          /\ f \in exhausted => stub_last.outcome = "ToolStubExhausted"

\* A recorded function's queue ran dry and a later call, with arguments that
\* match no recorded call, failed Exhausted; so did a never-recorded function.
C3_Witness ==
    /\ stub_last.op = "get_result"
    /\ stub_last.outcome = "ToolStubExhausted"
    /\ stub_last.arguments = EmptyDict
    /\ Len(RecordedCallsTo(stub_last.function)) = 2
    /\ NonexistentTool \in exhausted

\* C15: an Exhausted failure of get_result(f) carries the number of get_result
\* calls made for f so far, the failed ones and this one included, and the
\* number of calls to f that were recorded (checked under SpecRequests).
C15_ExhaustedCarriesRequests ==
    stub_last.op = "get_result" /\ stub_last.outcome = "ToolStubExhausted" =>
        /\ stub_last.requested = requests[stub_last.function]
        /\ stub_last.available = Len(RecordedCallsTo(stub_last.function))

\* C16: has_results(f) answers true exactly when fewer get_result(f) calls have
\* succeeded than calls to f were recorded, so false for a function never
\* recorded, and it leaves the stub's queues and counts as they were.
C16_HasResultsPure ==
    stub_last.op = "has_results" =>
        /\ stub_last.value
              <=> Len(returned[stub_last.function]) < Len(RecordedCallsTo(stub_last.function))
        /\ RecordedCallsTo(stub_last.function) = <<>> => ~stub_last.value
        /\ stub_call_counts = stub_last.before
        /\ stub_tool_calls = ToolStubInit(recorded)

\* has_results said no for a function whose two recorded results had both
\* been returned, after some function had failed Exhausted.
C16_Witness ==
    /\ stub_last.op = "has_results"
    /\ ~stub_last.value
    /\ Len(returned[stub_last.function]) = 2
    /\ Len(RecordedCallsTo(stub_last.function)) = 2
    /\ exhausted # {}

\* The recorded calls to f that no successful get_result(f) has consumed.
Shortfall(f) == Len(RecordedCallsTo(f)) - Len(returned[f])

\* C17: finish() without actual turns reports as missing_tools the recorded
\* calls not consumed through get_result, summed over the functions, records
\* exactly one error for every function with such calls and none else, and
\* leaves matched_tools, mismatched_tools and extra_tools at zero.
C17_FinishReportsUnconsumed ==
    stub_last.op = "finish" /\ stub_last.actual = None =>
        LET result == stub_last.finished
        IN /\ result.missing_tools =
                 Shortfall(LookupOrder) + Shortfall(ProcessRefund) + Shortfall(NonexistentTool)
           /\ \A f \in StubFunctions :
                 Cardinality({k \in 1..Len(result.errors) : result.errors[k].function = f})
                     = IF Shortfall(f) > 0 THEN 1 ELSE 0
           /\ \A k \in 1..Len(result.errors) : result.errors[k].function \in StubFunctions
           /\ result.matched_tools = 0
           /\ result.mismatched_tools = 0
           /\ result.extra_tools = 0

\* finish() after one of three recorded lookup_order calls had been consumed
\* and a request had failed: three calls of two functions are missing.
C17_Witness ==
    /\ stub_last.op = "finish" /\ stub_last.actual = None
    /\ Len(returned[LookupOrder]) = 1
    /\ Len(RecordedCallsTo(LookupOrder)) = 3
    /\ exhausted # {}
    /\ stub_last.finished.missing_tools = 3
    /\ Len(stub_last.finished.errors) = 2

(***************************************************************************)
(* Claims about finish(actual_turns) (checked under SpecFinish)            *)
(***************************************************************************)
\* finish has compared actual turns with the recorded ones.
FinishedComparing == stub_last.op = "finish" /\ stub_last.actual # None
ActualTurns == stub_last.actual[1]

\* What the pass over the actual turn at position p (counted from 1) added to
\* a counter, and the errors it appended.
Added(p, counter) == stub_last.steps[p + 1][counter] - stub_last.steps[p][counter]
NewErrors(p) ==
    SubSeq(stub_last.steps[p + 1].errors, Len(stub_last.steps[p].errors) + 1,
           Len(stub_last.steps[p + 1].errors))
NewErrorsOfKind(p, kinds) == SelectSeq(NewErrors(p), LAMBDA e : e.kind \in kinds)

\* The positions both sequences hold, and the tool-call counts there.
InBoth(p) == p \in 1..Len(ActualTurns) /\ p <= Len(recorded)
ActualCount(p) == Len(ActualTurns[p].tool_calls)
RecordedCount(p) == Len(recorded[p].tool_calls)

\* C18: at a position both sequences hold, with tool-call counts that differ
\* by d = actual - recorded, finish adds d to extra_tools when d > 0 and -d to
\* missing_tools when d < 0, adds |d| to mismatched_tools, records exactly one
\* error for the count difference, and counts no tool call of the turn matched.
C18_CountDifferenceBucketed ==
    FinishedComparing =>
        \A p \in 1..Len(ActualTurns) :
            InBoth(p) /\ ActualCount(p) # RecordedCount(p) =>
                LET d == ActualCount(p) - RecordedCount(p)
                IN /\ Added(p, "extra_tools") = IF d > 0 THEN d ELSE 0
                   /\ Added(p, "missing_tools") = IF d < 0 THEN -d ELSE 0
                   /\ Added(p, "mismatched_tools") = IF d > 0 THEN d ELSE -d
                   /\ Added(p, "matched_tools") = 0
                   /\ Len(NewErrorsOfKind(p, {"count"})) = 1
                   /\ NewErrorsOfKind(p, {"count"})[1].turn = p - 1
                   /\ NewErrorsOfKind(p, {"function", "arguments", "extra_turn",
                                          "missing_turns", "unconsumed"}) = <<>>
                   /\ stub_last.finished.extra_tools >= Added(p, "extra_tools")
                   /\ stub_last.finished.missing_tools >= Added(p, "missing_tools")
                   /\ stub_last.finished.mismatched_tools >= Added(p, "mismatched_tools")

\* finish compared two turns with two recorded ones: two calls too many in
\* the first, one too few in the second.
C18_Witness ==
    /\ FinishedComparing
    /\ Len(ActualTurns) = 2 /\ Len(recorded) = 2
    /\ ActualCount(1) - RecordedCount(1) = 2
    /\ ActualCount(2) - RecordedCount(2) = -1
    /\ stub_last.finished.extra_tools = 2
    /\ stub_last.finished.missing_tools = 1
    /\ stub_last.finished.mismatched_tools = 3
    /\ stub_last.finished.matched_tools = 0

\* The pairs (counted from 1) of the turns at position p whose function names
\* or arguments differ.
DifferingPairs(p) ==
    {j \in 1..ActualCount(p) :
        \/ ActualTurns[p].tool_calls[j].function # recorded[p].tool_calls[j].function
        \/ ActualTurns[p].tool_calls[j].arguments # recorded[p].tool_calls[j].arguments}

\* C19: at a position both sequences hold with equal tool-call counts, every
\* ordered pair of tool calls adds one to mismatched_tools, with one error, when
\* the function names or the arguments differ, and one to matched_tools
\* otherwise, whatever the ids, results and durations of the two calls.
C19_PairwiseComparison ==
    FinishedComparing =>
        \A p \in 1..Len(ActualTurns) :
            InBoth(p) /\ ActualCount(p) = RecordedCount(p) =>
                /\ Added(p, "mismatched_tools") = Cardinality(DifferingPairs(p))
                /\ Added(p, "matched_tools") = ActualCount(p) - Cardinality(DifferingPairs(p))
                /\ Added(p, "extra_tools") = 0
                /\ Added(p, "missing_tools") = 0
                /\ {e.tool + 1 : e \in {NewErrorsOfKind(p, {"function", "arguments"})[k] :
                        k \in 1..Len(NewErrorsOfKind(p, {"function", "arguments"}))}}
                      = DifferingPairs(p)
                /\ Len(NewErrorsOfKind(p, {"function", "arguments"}))
                      = Cardinality(DifferingPairs(p))
                /\ NewErrorsOfKind(p, {"count", "extra_turn", "missing_turns",
                                       "unconsumed"}) = <<>>
                /\ stub_last.finished.matched_tools >= Added(p, "matched_tools")

\* finish compared two turns of two calls each: in the first both pairs match,
\* one of them a call with another id, result and duration than recorded; in
\* the second one pair differs in the function and one in the arguments.
C19_Witness ==
    /\ FinishedComparing
    /\ Len(ActualTurns) = 2 /\ Len(recorded) = 2
    /\ ActualTurns[1].tool_calls = <<ActualCallA, RecordedCallB>>
    /\ recorded[1].tool_calls = <<RecordedCallA, RecordedCallB>>
    /\ ActualCallA # RecordedCallA
    /\ stub_last.finished.matched_tools = 2
    /\ stub_last.finished.mismatched_tools = 2
    /\ [k \in 1..Len(stub_last.finished.errors) |-> stub_last.finished.errors[k].kind]
          = <<"function", "arguments">>

\* C20: every actual turn at a position past the end of the recorded sequence
\* adds its tool-call count to extra_tools and to mismatched_tools and records
\* exactly one error, a turn without tool calls included.
C20_ExtraTurns ==
    FinishedComparing =>
        \A p \in 1..Len(ActualTurns) :
            p > Len(recorded) =>
                /\ Added(p, "extra_tools") = ActualCount(p)
                /\ Added(p, "mismatched_tools") = ActualCount(p)
                /\ Added(p, "matched_tools") = 0
                /\ Added(p, "missing_tools") = 0
                /\ Len(NewErrors(p)) = 1
                /\ NewErrors(p)[1].kind = "extra_turn"
                /\ NewErrors(p)[1].turn = p - 1
                /\ stub_last.finished.extra_tools >= ActualCount(p)
                /\ Len(stub_last.finished.errors) >= Len(ActualTurns) - Len(recorded)

\* finish compared three turns with one recorded turn: the second turn has no
\* tool calls and the third has three.
C20_Witness ==
    /\ FinishedComparing
    /\ Len(ActualTurns) = 3 /\ Len(recorded) = 1
    /\ ActualCount(2) = 0 /\ ActualCount(3) = 3
    /\ Added(2, "extra_tools") = 0 /\ Len(NewErrors(2)) = 1
    /\ Added(3, "extra_tools") = 3 /\ Added(3, "mismatched_tools") = 3
    /\ stub_last.finished.extra_tools = 3

\* The result as the loop over the actual turns left it, and the tool calls of
\* the recorded turns past the end of the actual sequence.
AfterLoop == stub_last.steps[Len(stub_last.steps)]
MissingCalls == CallsInOrder(SubSeq(recorded, Len(ActualTurns) + 1, Len(recorded)))

\* C21: when fewer actual turns are supplied than were recorded, the recorded
\* turns past the end of the actual sequence add their combined tool-call count
\* to missing_tools and to mismatched_tools and record one error in all,
\* however many they are.
C21_MissingTurns ==
    FinishedComparing /\ Len(ActualTurns) < Len(recorded) =>
        /\ stub_last.finished.missing_tools = AfterLoop.missing_tools + Len(MissingCalls)
        /\ stub_last.finished.mismatched_tools
              = AfterLoop.mismatched_tools + Len(MissingCalls)
        /\ stub_last.finished.matched_tools = AfterLoop.matched_tools
        /\ stub_last.finished.extra_tools = AfterLoop.extra_tools
        /\ Len(stub_last.finished.errors) = Len(AfterLoop.errors) + 1
        /\ SubSeq(stub_last.finished.errors, 1, Len(AfterLoop.errors)) = AfterLoop.errors
        /\ stub_last.finished.errors[Len(stub_last.finished.errors)].kind = "missing_turns"
        /\ Len(SelectSeq(stub_last.finished.errors,
                         LAMBDA e : e.kind = "missing_turns")) = 1

\* finish was handed no actual turn for two recorded turns of two calls each.
C21_Witness ==
    /\ FinishedComparing
    /\ ActualTurns = <<>> /\ Len(recorded) = 2
    /\ Len(MissingCalls) = 4
    /\ stub_last.finished.missing_tools = 4
    /\ stub_last.finished.mismatched_tools = 4
    /\ Len(stub_last.finished.errors) = 1

(***************************************************************************)
(* Claims about the Recorder and the codec (checked under Spec)            *)
(***************************************************************************)
\* run_from_dict(run_to_dict(r)) returns a Run whose turns, metadata, model
\* info and summary are those of r.
RoundTrips(r) ==
    LET back == RunFromDict(RunToDict(r))
    IN /\ back.raises = "none"
       /\ back.value.turns = r.turns
       /\ back.value.metadata = r.metadata
       /\ back.value.model = r.model
       /\ back.value.summary = r.summary

\* A value JSON holds as it is: None, a number, a str, a list of such values,
\* a dict of such values under str keys.
RECURSIVE IsJsonValue(_)
IsJsonValue(v) ==
    CASE v.k \in {"none", "str", "int", "float", "bool"} -> TRUE
      [] v.k = "list" -> \A i \in 1..Len(v.xs) : IsJsonValue(v.xs[i])
      [] v.k = "dict" -> \A i \in 1..Len(v.xs) :
                            IsStr(v.xs[i].xs[1]) /\ IsJsonValue(v.xs[i].xs[2])
      [] OTHER -> FALSE

\* The constructor arguments held by r have the types Recorder.__init__ declares.
DeclaredConstructorTypes(r) ==
    /\ IsStr(r.metadata.scenario) /\ IsStr(r.metadata.description)
    /\ IsList(r.metadata.tags) /\ \A i \in 1..Len(r.metadata.tags.xs) : IsStr(r.metadata.tags.xs[i])
    /\ IsStr(r.model.provider) /\ IsStr(r.model.model)
    /\ r.model.temperature.k = "float"
    /\ r.model.seed.k \in {"int", "none"}

\* Every stored tool call's arguments and result are JSON values.
JsonPayloads(r) ==
    \A i \in 1..Len(r.turns) : \A j \in 1..Len(r.turns[i].tool_calls) :
        /\ IsJsonValue(r.turns[i].tool_calls[j].arguments)
        /\ IsJsonValue(r.turns[i].tool_calls[j].result)

\* C4 as claimed: for any Run built via a Recorder, with any constructor
\* arguments and any successful add_turn calls, run_from_dict(run_to_dict(run))
\* has identical turns, metadata, model info and summary.
C4_RoundTripAnyRun == RoundTrips(run)

\* C4 as amended: the round trip gives identical turns, metadata, model info
\* and summary for any Run built via a Recorder whose constructor arguments
\* have their declared types and whose stored tool-call arguments and results
\* are JSON values.
C4_RoundTripJsonRun ==
    DeclaredConstructorTypes(run) /\ JsonPayloads(run) => RoundTrips(run)

\* A finalized Run of two turns with coerced content, an empty content, tool
\* calls, timing and tokens, all of it JSON, has made the round trip.
C4_Witness ==
    /\ DeclaredConstructorTypes(run) /\ JsonPayloads(run)
    /\ rec_last.op = "end"
    /\ Len(run.turns) = 2
    /\ run.turns[1].content = PyStr("")
    /\ Len(run.turns[2].tool_calls) = 2
    /\ run.turns[2].timing # None /\ run.turns[2].tokens # None
    /\ run.summary.total_tool_calls = 3
    /\ RoundTrips(run)

\* C8: after any add_turn calls, accepted or rejected, the turn at position i
\* of run.turns has index i: zero-based, increasing, no gap, no duplicate.
\* (Sequences here start at 1, so place i holds index i - 1.)
C8_SequentialIndex ==
    \A i \in 1..Len(run.turns) : run.turns[i].index = i - 1

\* A turn was appended after a rejected call and after another stored turn.
C8_Witness ==
    /\ rec_last.op = "add_turn" /\ rec_last.raises = "none"
    /\ rec_hist.rejected = 1
    /\ Len(run.turns) = 2

\* The role given to the last add_turn is one of the closed set.
RoleInClosedSet(role) == IsStr(role) /\ role.xs = <<>> /\ role.s \in TurnRole

\* C9 as claimed: add_turn raises for a role outside {system, user, assistant,
\* tool} and then appends nothing (turn list and next index unchanged); it never
\* raises for malformed optional data, so it raises only for such a role.
C9_RaisesOnlyForRole ==
    rec_last.op = "add_turn" =>
        /\ (rec_last.raises # "none" <=> ~RoleInClosedSet(rec_last.role))
        /\ (rec_last.raises # "none" =>
               run.turns = rec_last.turns_before /\ turn_index = rec_last.index_before)

\* The tool calls stored in a turn list, and the token counts stored in it.
RECURSIVE StoredToolCalls(_)
StoredToolCalls(turns) ==
    IF turns = <<>> THEN 0
    ELSE Len(Head(turns).tool_calls) + StoredToolCalls(Tail(turns))

RECURSIVE StoredTokens(_, _)
StoredTokens(turns, field) ==
    IF turns = <<>> THEN 0
    ELSE (IF Head(turns).tokens = None THEN 0 ELSE Head(turns).tokens[1][field])
         + StoredTokens(Tail(turns), field)

\* C10: in a single session on a fresh Recorder in which every add_turn
\* succeeds, the summary written at session end has total_turns = the number of
\* stored turns, total_tool_calls = the tool calls stored across all turns,
\* prompt and completion totals = the sums of the coerced per-call counts, and
\* total = prompt + completion.
C10_SummaryTotals ==
    rec_last.op = "end" /\ rec_hist.begun = 1 /\ rec_hist.rejected = 0 =>
        /\ run.summary.total_turns = Len(run.turns)
        /\ run.summary.total_tool_calls = StoredToolCalls(run.turns)
        /\ run.summary.total_tokens.prompt = StoredTokens(run.turns, "prompt")
        /\ run.summary.total_tokens.completion = StoredTokens(run.turns, "completion")
        /\ run.summary.total_tokens.total =
              run.summary.total_tokens.prompt + run.summary.total_tokens.completion

\* The single session ended with two stored turns, one of them given entries
\* that are no mappings and token counts as a str and a float.
C10_Witness ==
    /\ rec_last.op = "end" /\ rec_hist.begun = 1 /\ rec_hist.rejected = 0
    /\ Len(run.turns) = 2
    /\ run.summary.total_tool_calls = 3
    /\ run.summary.total_tokens.prompt = 6
    /\ run.summary.total_tokens.completion = 4

\* A recording() context has been left.
SessionEnded == rec_hist.begun > open_sessions

\* C11 as claimed: entering recording() resets the running tool-call count and
\* the prompt and completion token totals to zero, so that the summary written
\* at the end of that session counts only what was added since that begin.
C11_BeginResetsCounters ==
    rec_last.op = "begin" =>
        /\ total_tool_calls = 0
        /\ total_prompt_tokens = 0
        /\ total_completion_tokens = 0

\* C12 as claimed: once a recording session has ended, no Recorder operation
\* (add_turn, or entering and leaving recording() again) changes the Run's
\* turns or its summary.
C12_ReadOnlyAfterEnd ==
    [][SessionEnded => run'.turns = run.turns /\ run'.summary = run.summary]_vars

(***************************************************************************)
(* Claims about ingestion (checked under SpecIngest)                       *)
(***************************************************************************)
\* The last operation appended a turn: that turn's tool calls.
AppendedTurn == Len(run.turns) = Len(rec_last.turns_before) + 1
AppendedToolCalls == run.turns[Len(run.turns)].tool_calls

\* The raw tool calls of the response's first message, and the function name
\* a raw tool call gives (None when it gives none).
RawEntriesOf(response) == PyGet(PyGet(PyGet(response, "choices").xs[1], "message"), "tool_calls").xs
RawName(tc) ==
    IF IsDict(tc) /\ IsDict(PyGet(tc, "function")) THEN PyGet(PyGet(tc, "function"), "name")
    ELSE PyNone

\* The entries an iterable of tool-call entries holds (none when it holds none).
SuppliedEntries(tool_calls) ==
    IF tool_calls.k \in {"list", "tuple"} THEN tool_calls.xs ELSE <<>>

\* C13 as claimed: no ToolCall with an empty function name is ever stored in a
\* Run; an entry whose function name is empty or missing is dropped during
\* ingestion.
C13_NoEmptyFunctionStored ==
    \A i \in 1..Len(run.turns) : \A j \in 1..Len(run.turns[i].tool_calls) :
        run.turns[i].tool_calls[j].function # PyStr("")

\* C13 as amended: the OpenAI interceptor stores no ToolCall with an empty
\* function name: it drops every raw tool call whose function name is missing,
\* empty or otherwise false, and stores the others, in order, under their
\* names; add_turn called directly drops no mapping entry, whatever its
\* function name.
C13_InterceptorDropsUnnamed ==
    /\ rec_last.op = "record_openai_response" /\ AppendedTurn =>
          LET named == SelectSeq(RawEntriesOf(rec_last.given),
                                 LAMBDA tc : Truthy(RawName(tc)))
          IN /\ \A j \in 1..Len(AppendedToolCalls) :
                   AppendedToolCalls[j].function # PyStr("")
             /\ Len(AppendedToolCalls) = Len(named)
             /\ \A j \in 1..Len(named) :
                   AppendedToolCalls[j].function = Str(RawName(named[j]))
    /\ rec_last.op = "add_turn" /\ AppendedTurn =>
          Len(AppendedToolCalls) = Len(SelectSeq(SuppliedEntries(rec_last.given), IsDict))

\* The interceptor recorded a response of six raw tool calls, four of them
\* without a usable name, after add_turn had stored a call without a name.
C13_Witness ==
    /\ rec_last.op = "record_openai_response" /\ AppendedTurn
    /\ Len(RawEntriesOf(rec_last.given)) = 6
    /\ Len(AppendedToolCalls) = 2
    /\ AppendedToolCalls[2].function = PyStr("7")
    /\ Len(run.turns) = 2
    /\ \E j \in 1..Len(run.turns[1].tool_calls) :
          run.turns[1].tool_calls[j].function = PyStr("")

\* add_turn's parsing of the supplied entries (checked under Spec).
\* The value an entry holds under a key, and whether it holds one that is
\* not None.
EntryValue(entry, key) ==
    LET at == {i \in 1..Len(entry.xs) : entry.xs[i].xs[1] = PyStr(key)}
    IN IF at = {} THEN PyNone ELSE entry.xs[CHOOSE i \in at : TRUE].xs[2]
EntryGives(entry, key) == EntryValue(entry, key) # PyNone

\* The text str() gives for the ids and function names the entries hold.
TextOf(v) == IF v.k = "str" THEN v ELSE PyStr(ToString(v.n))

\* C14: an add_turn call that stores a turn stores one ToolCall per supplied
\* entry that is a mapping, in the supplied order, and none for the other
\* entries; a missing id is stored as "" and an id that is no string as its
\* text, a missing function name is stored as "" (and the call is stored), and
\* arguments that are no mapping are stored as the empty mapping.
C14_OneToolCallPerMapping ==
    rec_last.op = "add_turn" /\ AppendedTurn =>
        LET mappings == SelectSeq(SuppliedEntries(rec_last.given), IsDict)
        IN /\ Len(AppendedToolCalls) = Len(mappings)
           /\ \A j \in 1..Len(mappings) :
                 /\ AppendedToolCalls[j].id =
                       IF EntryGives(mappings[j], "id")
                       THEN TextOf(EntryValue(mappings[j], "id")) ELSE PyStr("")
                 /\ AppendedToolCalls[j].function =
                       IF EntryGives(mappings[j], "function")
                       THEN TextOf(EntryValue(mappings[j], "function")) ELSE PyStr("")
                 /\ AppendedToolCalls[j].arguments =
                       IF EntryValue(mappings[j], "arguments").k = "dict"
                       THEN EntryValue(mappings[j], "arguments") ELSE PyDict(<<>>)

\* add_turn stored a turn from three entries: None, a mapping with the id 123,
\* no function and a list as arguments, and a well-formed mapping.
C14_Witness ==
    /\ rec_last.op = "add_turn" /\ AppendedTurn
    /\ Len(SuppliedEntries(rec_last.given)) = 3
    /\ SuppliedEntries(rec_last.given)[1] = PyNone
    /\ Len(AppendedToolCalls) = 2
    /\ AppendedToolCalls[1].id = PyStr("123")
    /\ AppendedToolCalls[1].function = PyStr("")
    /\ AppendedToolCalls[1].arguments = PyDict(<<>>)
    /\ AppendedToolCalls[2].function = PyStr("lookup_order")

(***************************************************************************)
(* Claims about run_from_dict (checked under SpecDecode)                   *)
(***************************************************************************)
\* The entries of the document's turns list (none when turns is no list).
TurnEntriesOf(d) == CoerceList(PyGet(d, "turns"))

\* The role an entry holds; an entry that is no mapping holds none.
EntryRole(e) == IF IsDict(e) THEN PyGet(e, "role") ELSE PyNone

\* The entry is missing role, has a null or empty role, or a role outside the
\* closed set.
LacksValidRole(e) == ~RoleInClosedSet(EntryRole(e))

\* C5 as claimed: run_from_dict fails and returns no Run whenever any entry of
\* the document's turns list is missing role, has a null or empty role or a
\* role outside {system, user, assistant, tool}; no such entry is given a
\* default role or silently skipped.
C5_FailsOnAnyEntryWithoutRole ==
    decoded.op = "run_from_dict" =>
        ((\E i \in 1..Len(TurnEntriesOf(doc)) : LacksValidRole(TurnEntriesOf(doc)[i]))
            => decoded.raises # "none" /\ IsNone(decoded.run))

\* C5 as amended: run_from_dict fails and returns no Run whenever any entry of
\* the turns list that is a mapping is missing role, has a null or empty role
\* or a role outside the closed set; when it returns a Run, that Run holds one
\* turn per mapping entry, in order, each with the role its entry gives (no
\* default role, no mapping skipped).  Entries that are no mappings are left
\* out without an error.
C5_FailsOnMappingWithoutRole ==
    LET entries == TurnEntriesOf(doc)
        mappings == SelectSeq(entries, IsDict)
    IN decoded.op = "run_from_dict" =>
          /\ (\E i \in 1..Len(entries) : IsDict(entries[i]) /\ LacksValidRole(entries[i]))
                => decoded.raises # "none" /\ IsNone(decoded.run)
          /\ decoded.raises = "none" =>
                /\ Len(decoded.run.turns) = Len(mappings)
                /\ \A j \in 1..Len(mappings) :
                      PyStr(decoded.run.turns[j].role) = PyGet(mappings[j], "role")

\* A document whose first turn is well-formed and whose second has a null
\* role was decoded, and the decoding failed.
C5_Witness ==
    /\ decoded.op = "run_from_dict"
    /\ Len(TurnEntriesOf(doc)) = 2
    /\ ~LacksValidRole(TurnEntriesOf(doc)[1])
    /\ IsDict(TurnEntriesOf(doc)[2])
    /\ "role" \in {TurnEntriesOf(doc)[2].xs[k].xs[1].s : k \in 1..Len(TurnEntriesOf(doc)[2].xs)}
    /\ IsNone(EntryRole(TurnEntriesOf(doc)[2]))
    /\ decoded.raises = "ValueError"

\* The document holds the section null or not at all.
Without(d, key) == ~IsDict(d) \/ \A i \in 1..Len(d.xs) :
                                   d.xs[i].xs[1] = PyStr(key) => d.xs[i].xs[2] = PyNone
SectionOf(d, key) == IF Without(d, key) THEN PyDict(<<>>) ELSE PyGet(d, key)

\* The defaults of a decoded turn for the sections its entry is without.
TurnDefaults(entry, turn) ==
    /\ Without(entry, "index") => turn.index = 0
    /\ Without(entry, "content") => turn.content = PyNone
    /\ Without(entry, "tool_calls") => turn.tool_calls = <<>>
    /\ Without(entry, "timing") => turn.timing = None
    /\ Without(entry, "tokens") => turn.tokens = None

\* C22: run_from_dict succeeds on a document that holds any of its optional
\* sections (source, model, metadata, metadata.tags, summary,
\* summary.total_tokens, turns, a turn's index, content, tool_calls, timing,
\* tokens) null or not at all, and the Run has the default for each of them:
\* empty strings, a zero summary, no tags, turns or tool calls, no timing and
\* tokens, index 0.
C22_NullSectionsDefault ==
    decoded.op = "run_from_dict"
        /\ (doc \in TopSectionDocuments \/ doc \in TurnSectionDocuments) =>
        /\ decoded.raises = "none"
        /\ Without(doc, "source") =>
              decoded.run.recorded_at = PyStr("") /\ decoded.run.recorder_version = PyStr("")
        /\ Without(doc, "model") =>
              /\ decoded.run.model.provider = PyStr("")
              /\ decoded.run.model.model = PyStr("")
              /\ decoded.run.model.seed = PyNone
        /\ Without(doc, "metadata") =>
              /\ decoded.run.metadata.scenario = PyStr("")
              /\ decoded.run.metadata.description = PyStr("")
        /\ Without(SectionOf(doc, "metadata"), "tags") =>
              decoded.run.metadata.tags = PyList(<<>>)
        /\ Without(doc, "summary") =>
              /\ decoded.run.summary.total_turns = 0
              /\ decoded.run.summary.total_tool_calls = 0
              /\ decoded.run.summary.total_duration_ms = PyFloat(0)
              /\ decoded.run.summary.estimated_cost_usd = PyFloat(0)
        /\ Without(SectionOf(doc, "summary"), "total_tokens") =>
              decoded.run.summary.total_tokens = [prompt |-> 0, completion |-> 0, total |-> 0]
        /\ Without(doc, "turns") => decoded.run.turns = <<>>
        /\ ~Without(doc, "turns") =>
              /\ Len(decoded.run.turns) = Len(PyGet(doc, "turns").xs)
              /\ \A i \in 1..Len(decoded.run.turns) :
                    TurnDefaults(PyGet(doc, "turns").xs[i], decoded.run.turns[i])

\* run_from_dict decoded a document with every optional section null.
C22_Witness ==
    /\ decoded.op = "run_from_dict"
    /\ doc \in TopSectionDocuments
    /\ Len(doc.xs) = 5
    /\ \A key \in {"source", "model", "metadata", "summary", "turns"} : Without(doc, key)
    /\ decoded.raises = "none"
    /\ decoded.run.summary = ZeroSummary
    /\ decoded.run.turns = <<>>

\* run_from_dict decoded a turn with every optional section null.
C22_TurnWitness ==
    /\ decoded.op = "run_from_dict"
    /\ ~Without(doc, "turns")
    /\ PyGet(doc, "turns").xs = <<DocTurnAllNull>>
    /\ decoded.raises = "none"
    /\ decoded.run.turns = <<Turn(0, "assistant", PyNone, <<>>, None, None)>>

(***************************************************************************)
(* Claims about the AssertionEngine (checked under SpecCheck)              *)
(***************************************************************************)
\* The result check appended for the j-th policy.
PolicyResult(j) == chk_out.results[Len(chk_assertions) + j]

\* The checker of a policy of a known type raises.
PolicyCheckerRaises(policy) ==
    \/ policy.type = "tool_allowlist"
          /\ PolicyToolAllowlist(chk_run, policy).raises # "none"
    \/ policy.type = "requires_confirmation"
          /\ PolicyRequiresConfirmation(chk_run, policy).raises # "none"

Failing(result) == ~result.passed /\ result.message # ""

\* C6: check never raises; it returns exactly one result per assertion, in the
\* given order, followed by exactly one result per policy, in the given order;
\* a check of an unknown type, or whose evaluation raises internally, yields a
\* failing result with a non-empty message, and every other check of the lists
\* is evaluated as it would be alone.
C6_CheckNeverRaises ==
    chk_out.op = "check" =>
        /\ chk_out.raises = "none"
        /\ Len(chk_out.results) = Len(chk_assertions) + Len(chk_policies)
        /\ \A i \in 1..Len(chk_assertions) :
              /\ chk_out.results[i].assertion = chk_assertions[i]
              /\ chk_assertions[i].type \notin AssertionTypes => Failing(chk_out.results[i])
              /\ chk_assertions[i].type \in AssertionTypes
                    /\ Checker(chk_run, chk_assertions[i]).raises # "none"
                    => Failing(chk_out.results[i])
              /\ chk_assertions[i].type \in AssertionTypes
                    /\ Checker(chk_run, chk_assertions[i]).raises = "none"
                    => chk_out.results[i] = Checker(chk_run, chk_assertions[i]).value
        /\ \A j \in 1..Len(chk_policies) :
              /\ PolicyResult(j).assertion.type = "policy:" \o chk_policies[j].name
              /\ chk_policies[j].type \notin PolicyTypes => Failing(PolicyResult(j))
              /\ PolicyCheckerRaises(chk_policies[j]) => Failing(PolicyResult(j))
              /\ chk_policies[j].type = "requires_confirmation"
                    /\ ~PolicyCheckerRaises(chk_policies[j])
                    => PolicyResult(j) =
                          PolicyRequiresConfirmation(chk_run, chk_policies[j]).value

\* Two assertions and two policies were checked; the first assertion raised
\* internally and the first policy too, and the checks after them gave their
\* own results.
C6_Witness ==
    /\ chk_out.op = "check"
    /\ Len(chk_assertions) = 2 /\ Len(chk_policies) = 2
    /\ chk_assertions[1].target = "turn:x"
    /\ chk_out.results[1].message = "Assertion error: ValueError"
    /\ chk_out.results[2].message =
          "Tool 'process_refund' was called but should not have been"
    /\ chk_out.results[3].message = "Policy error: TypeError"
    /\ chk_out.results[4].message =
          "Tool 'process_refund' called at turn 0 with no prior confirmation"

\* The functions a requires_confirmation policy protects.
ProtectedSet(policy) == {policy.tools.xs[k] : k \in 1..Len(policy.tools.xs)}

\* The positions (from 1) of the turns holding a call to a protected function
\* that are the first turn or follow a turn whose role is not user.
Unconfirmed(turns, policy) ==
    {i \in 1..Len(turns) :
        /\ \E c \in 1..Len(turns[i].tool_calls) :
              turns[i].tool_calls[c].function \in ProtectedSet(policy)
        /\ ~(i > 1 /\ turns[i - 1].role = "user")}

\* The first call to a protected function in a turn.
FirstProtected(turn, policy) ==
    turn.tool_calls[CHOOSE c \in 1..Len(turn.tool_calls) :
        /\ turn.tool_calls[c].function \in ProtectedSet(policy)
        /\ \A b \in 1..(c - 1) :
              turn.tool_calls[b].function \notin ProtectedSet(policy)].function.s

\* C7: a requires_confirmation policy passes iff every turn at position i that
\* holds a call to a function of the protected set has i > 0 and follows a
\* turn of role user; otherwise it fails with the message of the first
\* violation in trajectory order (the earliest such turn, and in it the first
\* protected call).
C7_RequiresConfirmation ==
    chk_out.op = "check" =>
        \A j \in 1..Len(chk_policies) :
            LET policy == chk_policies[j]
                turns == chk_run.turns
                bad == Unconfirmed(turns, policy)
                first == CHOOSE i \in bad : \A k \in bad : i <= k
            IN policy.type = "requires_confirmation" /\ IsList(policy.tools) =>
                  /\ PolicyResult(j).passed <=> bad = {}
                  /\ bad # {} =>
                        PolicyResult(j).message =
                            IF first = 1
                            THEN "Tool '" \o FirstProtected(turns[first], policy)
                                 \o "' called at turn 0 with no prior confirmation"
                            ELSE "Tool '" \o FirstProtected(turns[first], policy)
                                 \o "' at turn " \o ToString(first - 1)
                                 \o " not preceded by user confirmation"

\* A Run with protected calls in its second turn, after a tool turn, and in
\* its third, after an assistant turn, failed the policy with the second
\* turn's first protected call reported.
C7_Witness ==
    /\ chk_out.op = "check"
    /\ Len(chk_policies) = 1 /\ chk_policies[1].type = "requires_confirmation"
    /\ IsList(chk_policies[1].tools)
    /\ Unconfirmed(chk_run.turns, chk_policies[1]) = {2, 3}
    /\ Len(chk_run.turns[2].tool_calls) = 2
    /\ ~PolicyResult(1).passed
    /\ PolicyResult(1).message =
          "Tool 'lookup_order' at turn 1 not preceded by user confirmation"

\* The stored calls of the checked Run, in trajectory order.
CheckedCalls == CallsInOrder(chk_run.turns)

\* Key k is present in the mapping args with a value equal to v.
PresentWith(args, k, v) ==
    \E i \in 1..Len(args.xs) : PyEq(args.xs[i].xs[1], k) /\ PyEq(args.xs[i].xs[2], v)

\* The stored call has a mapping of arguments in which every expected key is
\* present with an equal value.
SupersetMatch(tc, expected) ==
    /\ IsDict(tc.arguments)
    /\ \A k \in 1..Len(expected.xs) :
          PresentWith(tc.arguments, expected.xs[k].xs[1], expected.xs[k].xs[2])

\* C23: a called_with assertion with a non-null mapping of expected arguments
\* passes iff some recorded call to the named function has an arguments
\* mapping in which every expected key is present with an equal value; a
\* recorded call whose arguments are no mapping never matches.
C23_CalledWithSuperset ==
    chk_out.op = "check" =>
        \A i \in 1..Len(chk_assertions) :
            LET spec == chk_assertions[i]
            IN spec.type = "called_with" /\ IsDict(spec.schema) =>
                  (chk_out.results[i].passed
                     <=> \E c \in 1..Len(CheckedCalls) :
                            /\ CheckedCalls[c].function = PyStr(FuncName(spec.target))
                            /\ SupersetMatch(CheckedCalls[c], spec.schema))

\* The positions of the assistant turns whose content is not null.
Speaking(turns) ==
    {i \in 1..Len(turns) : turns[i].role = "assistant" /\ ~IsNone(turns[i].content)}

\* The content of the turn at the highest such position, null when there is none.
LastSpoken(turns) ==
    IF Speaking(turns) = {} THEN PyNone
    ELSE turns[CHOOSE i \in Speaking(turns) : \A k \in Speaking(turns) : k <= i].content

\* C24: the target final_response resolves to the content of the assistant
\* turn at the highest position whose content is not null (an empty string
\* counts as not null), and to null when there is none; turns of other roles
\* and assistant turns with null content are skipped. An exact assertion on
\* final_response therefore passes iff that content equals its value.
C24_FinalResponse ==
    chk_out.op = "check" =>
        /\ FinalResponse(chk_run.turns) = LastSpoken(chk_run.turns)
        /\ \A i \in 1..Len(chk_assertions) :
              LET spec == chk_assertions[i]
              IN spec.type = "exact" /\ spec.target = "final_response"
                 /\ ~IsNone(spec.value) =>
                    (chk_out.results[i].passed
                       <=> PyEq(LastSpoken(chk_run.turns), spec.value))

\* An exact assertion expecting the empty string passed on a Run whose first
\* turn is an assistant turn with empty content, followed by an assistant
\* turn with null content and a tool turn with content.
C24_Witness ==
    /\ chk_out.op = "check"
    /\ Len(chk_assertions) = 1 /\ chk_assertions[1].type = "exact"
    /\ chk_assertions[1].target = "final_response"
    /\ Len(chk_run.turns) = 3
    /\ chk_run.turns[1].role = "assistant" /\ chk_run.turns[1].content = PyStr("")
    /\ chk_run.turns[2].role = "assistant" /\ IsNone(chk_run.turns[2].content)
    /\ chk_run.turns[3].role = "tool" /\ ~IsNone(chk_run.turns[3].content)
    /\ chk_out.results[1].passed

\* C25: check never mutates the Run it evaluates: its turns, tool calls,
\* metadata and summary are after the call what they were before it, also
\* when checks fail or raise internally.
C25_CheckLeavesRun == [][chk_run' = chk_run]_vars

\* A Run of two turns with stored calls was checked with two assertions: the
\* first raised internally, the second failed.
C25_Witness ==
    /\ chk_out.op = "check"
    /\ Len(chk_run.turns) = 2 /\ chk_run.turns[1].tool_calls # <<>>
    /\ Len(chk_assertions) = 2 /\ chk_policies = <<>>
    /\ chk_out.results[1].message = "Assertion error: ValueError"
    /\ chk_assertions[2].type = "not_called" /\ ~chk_out.results[2].passed

\* Ways of giving the turns of a Run other index values: all zero, the
\* positions counted from the end, the positions shifted.
IndexKinds == {"zero", "reversed", "shifted"}

Reindexed(turns, kind) ==
    [i \in 1..Len(turns) |->
        [turns[i] EXCEPT !.index = CASE kind = "zero" -> 0
                                     [] kind = "reversed" -> Len(turns) - i
                                     [] kind = "shifted" -> i + 4]]

\* finish(actual_turns) of an engine built on recorded_turns.
ReplayDiff(recorded_turns, actual_turns) ==
    Compared(CompareTurns(actual_turns, recorded_turns, <<NewReplayResult>>),
             actual_turns, recorded_turns).result

\* Actual sequences the checked Run is replayed against: its own turns, its
\* turns without the last, its turns in reverse order, and two turns of a
\* refund.
ReplayPartners(turns) ==
    {turns, SubSeq(turns, 1, Len(turns) - 1),
     [i \in 1..Len(turns) |-> turns[Len(turns) + 1 - i]]}
    \cup {r.turns : r \in ListCheckRuns}

\* C26: two Runs that differ only in the index values of their turns give
\* the same turn:N target resolution, the same requires_confirmation result
\* and the same replay diff: all three go by the position of a turn in the
\* sequence.
C26_IndexIgnored ==
    chk_out.op = "check" =>
        \A kind \in IndexKinds :
            LET other == [chk_run EXCEPT !.turns = Reindexed(chk_run.turns, kind)]
            IN /\ \A i \in 1..Len(chk_assertions) :
                     StartsWith(chk_assertions[i].target, "turn:") =>
                        /\ ResolveTarget(other, chk_assertions[i].target)
                              = ResolveTarget(chk_run, chk_assertions[i].target)
                        /\ CheckAssertion(other, chk_assertions[i]).value = chk_out.results[i]
               /\ \A j \in 1..Len(chk_policies) :
                     chk_policies[j].type = "requires_confirmation" =>
                        CheckPolicy(other, chk_policies[j]).value = PolicyResult(j)
               /\ \A actual \in ReplayPartners(chk_run.turns), k \in IndexKinds :
                     ReplayDiff(other.turns, Reindexed(actual, k))
                        = ReplayDiff(chk_run.turns, actual)

\* An exact assertion on turn:1 passed on a Run of three turns whose second
\* turn says yes; with the positions counted from the end as index values
\* that turn has index 1 too, with the other index values no turn has.
C26_Witness ==
    /\ chk_out.op = "check"
    /\ Len(chk_assertions) = 1 /\ chk_assertions[1].target = "turn:1"
    /\ Len(chk_run.turns) = 3 /\ chk_run.turns[2].content = PyStr("yes")
    /\ chk_run.turns[3].tool_calls # <<>>
    /\ chk_out.results[1].passed
    /\ \A i \in 1..3 : Reindexed(chk_run.turns, "zero")[i].index # 1

\* A requires_confirmation policy failed at turn 1 of a Run whose replay
\* against its own turns in reverse order is not ok.
C26_PolicyWitness ==
    /\ chk_out.op = "check"
    /\ Len(chk_policies) = 1 /\ chk_policies[1].type = "requires_confirmation"
    /\ PolicyResult(1).message =
          "Tool 'process_refund' at turn 1 not preceded by user confirmation"
    /\ ~ReplayOk(ReplayDiff(chk_run.turns,
                            [i \in 1..Len(chk_run.turns) |->
                                chk_run.turns[Len(chk_run.turns) + 1 - i]]))

(***************************************************************************)
(* Further claims about finish (checked under SpecFinish and SpecReplay)   *)
(***************************************************************************)
\* C27: in every result of finish(actual_turns) mismatched_tools is at least
\* extra_tools + missing_tools, so a result with extra or missing calls is
\* not ok.
C27_MismatchedCoversExtraAndMissing ==
    FinishedComparing =>
        LET result == stub_last.finished
        IN /\ result.mismatched_tools >= result.extra_tools + result.missing_tools
           /\ result.extra_tools # 0 \/ result.missing_tools # 0 => ~ReplayOk(result)

\* A comparison that found extra calls, missing calls and a pair of calls
\* that differ: mismatched_tools exceeds the sum of the other two.
C27_Witness ==
    /\ FinishedComparing
    /\ stub_last.finished.extra_tools > 0
    /\ stub_last.finished.missing_tools > 0
    /\ stub_last.finished.mismatched_tools
          > stub_last.finished.extra_tools + stub_last.finished.missing_tools

(***************************************************************************)
(* Further claims about the Recorder (checked under Spec)                  *)
(***************************************************************************)
\* C28 as claimed: an add_turn call rejected for an invalid role leaves the
\* running tool-call and token counters unchanged, so the summary finalized
\* afterwards has total_tool_calls equal to the tool calls in the stored turns
\* and token totals equal to the sums over the stored turns.
C28_RejectedLeavesCounters ==
    [][/\ (rec_last'.op = "add_turn" /\ rec_last'.raises # "none"
              /\ ~RoleInClosedSet(rec_last'.role)
           => /\ total_tool_calls' = total_tool_calls
              /\ total_prompt_tokens' = total_prompt_tokens
              /\ total_completion_tokens' = total_completion_tokens)
       /\ (rec_last.op = "add_turn" /\ ~RoleInClosedSet(rec_last.role)
              /\ rec_hist.rejected = 1 /\ rec_hist.begun = 1 /\ rec_last'.op = "end"
           => /\ run'.summary.total_tool_calls = StoredToolCalls(run'.turns)
              /\ run'.summary.total_tokens.prompt = StoredTokens(run'.turns, "prompt")
              /\ run'.summary.total_tokens.completion
                    = StoredTokens(run'.turns, "completion"))]_vars

(***************************************************************************)
(* Further claims about finish(actual_turns) (checked under SpecFinish)    *)
(***************************************************************************)
\* The two sequences have the same length and, at every position, the same
\* role, the same number of tool calls and pairwise the same function names
\* and arguments.
SameTrajectory(actual_turns, recorded_turns) ==
    /\ Len(actual_turns) = Len(recorded_turns)
    /\ \A p \in 1..Len(actual_turns) :
          /\ actual_turns[p].role = recorded_turns[p].role
          /\ Len(actual_turns[p].tool_calls) = Len(recorded_turns[p].tool_calls)
          /\ \A j \in 1..Len(actual_turns[p].tool_calls) :
                /\ actual_turns[p].tool_calls[j].function
                      = recorded_turns[p].tool_calls[j].function
                /\ actual_turns[p].tool_calls[j].arguments
                      = recorded_turns[p].tool_calls[j].arguments

\* C29: finish(actual_turns) is ok iff the actual turns have the length of the
\* recorded ones and at every position the same role, the same number of tool
\* calls and pairwise equal function names and arguments; content, ids,
\* results, durations, timing and tokens never affect ok; finish on the
\* recorded turns themselves is ok with matched_tools = the recorded tool calls.
C29_OkIffSameTrajectory ==
    FinishedComparing =>
        /\ ReplayOk(stub_last.finished) <=> SameTrajectory(ActualTurns, recorded)
        /\ ActualTurns = recorded =>
              /\ ReplayOk(stub_last.finished)
              /\ stub_last.finished.matched_tools = Len(CallsInOrder(recorded))

\* finish was ok on actual turns that differ from the two recorded ones in
\* content, timing, tokens and the id, result and duration of a call.
C29_Witness ==
    /\ FinishedComparing
    /\ ReplayOk(stub_last.finished)
    /\ Len(recorded) = 2
    /\ \E p \in 1..2 :
          /\ ActualTurns[p].content # recorded[p].content
          /\ ActualTurns[p].timing # recorded[p].timing
          /\ ActualTurns[p].tokens # recorded[p].tokens
          /\ ActualTurns[p].tool_calls[1].id # recorded[p].tool_calls[1].id
          /\ ActualTurns[p].tool_calls[1].result # recorded[p].tool_calls[1].result
          /\ ActualTurns[p].tool_calls[1].duration_ms # recorded[p].tool_calls[1].duration_ms

\* finish was ok on the recorded turns themselves, with three matched calls.
C29_SelfWitness ==
    /\ FinishedComparing
    /\ ActualTurns = recorded
    /\ ReplayOk(stub_last.finished)
    /\ stub_last.finished.matched_tools = 3

(***************************************************************************)
(* Further claims about finish during a replay (checked under SpecReplay)  *)
(***************************************************************************)
\* C30: finish, in either form, leaves the tool stub's consumption state and
\* the recorded Run unchanged, so a finish that follows a finish with the same
\* argument returns an equal result, and every get_result behaves after
\* finish as it would have without it.
C30_FinishLeavesStub ==
    [][/\ (stub_last'.op = "finish"
           => /\ stub_call_counts' = stub_call_counts
              /\ stub_tool_calls' = stub_tool_calls
              /\ recorded' = recorded
              /\ \A f \in StubFunctions, a \in StubArguments :
                    GetResultOutcome(f, a)' = GetResultOutcome(f, a))
       /\ (stub_last.op = "finish" /\ stub_last'.op = "finish"
              /\ stub_last'.actual = stub_last.actual
           => stub_last'.finished = stub_last.finished)]_vars

\* finish was handed actual turns after a recorded result had been returned
\* and a request had failed, and found a turn missing.
C30_Witness ==
    /\ stub_last.op = "finish" /\ stub_last.actual # None
    /\ stub_call_counts # EmptyMap
    /\ exhausted # {}
    /\ stub_last.finished.missing_tools > 0

====
